---- MODULE Spec2Model ----
(***************************************************************************)
(* Software rasterization pipeline of the solar-system renderer:           *)
(* frame buffer with depth test, vertex stage, triangle assembly,          *)
(* rasterizer, fragment dispatch and the main frame loop.                  *)
(*                                                                         *)
(* Numbers: f32 values are modelled as integers.  Division rounds toward   *)
(* zero (FDiv); +infinity is the sentinel Inf, larger than every finite    *)
(* depth of the model.  Colors are (r, g, b) triples; the color a          *)
(* procedural shader returns is kept symbolic, as the shader's name and    *)
(* the inputs it reads.                                                    *)
(***************************************************************************)
EXTENDS Integers, Sequences, FiniteSets, TLC

VARIABLES
  color,       \* Framebuffer color plane: pixel -> color
  depth,       \* Framebuffer depth plane: pixel -> depth
  background,  \* Framebuffer configured background color
  calls,       \* history: the point() calls made since the last clear(), in order
  cleared,     \* history: clear() has run at least once
  clearBg,     \* history: background color the planes were last reset to
  lastOp,      \* history: name of the last frame-buffer operation
  fn,          \* pure-function harness: the function applied ("none" before the call)
  arg,         \* pure-function harness: its input
  res,         \* pure-function harness: its result
  stage,       \* draw call: the stage of render / render_sun to run next
  transformed_vertices,  \* draw call: output of the vertex shader stage
  triangles,   \* draw call: output of the primitive assembly stage
  fragments,   \* draw call: output of the rasterization stage
  fragTri,     \* history: for each fragment, the index of the triangle it came from
  written,     \* draw call: number of fragments the fragment stage has processed
  stagelog,    \* history: the stages the draw call has completed, in order
  step,        \* main: position in the frame loop (index into FrameSteps; 0 once closed)
  frames,      \* main: number of loop iterations started
  elapsed_time,       \* main: elapsed_time
  delta_time,         \* main: delta_time of the current iteration
  orbital_angle,      \* main: orbital_angle of each planet
  pidx,        \* main: index of the next planet of the planet loop
  ship_vertex_array,  \* main: vertex array of the loaded ship model
  camera,      \* main: camera.eye, camera.target, camera.yaw, camera.pitch
  ship,        \* main: ship.position, ship.rotation, ship.scale
  clears,      \* history: clear() calls of the current iteration
  framePoints, \* history: point() calls of the current iteration
  pointsBeforeClear,  \* history: point() calls of the iteration made before its clear()
  presents,    \* history: update_texture() calls of the current iteration
  drawn,       \* history: the draw calls completed in the current iteration, in order
  pointsAfterPresent, \* history: point() calls of the iteration made after its update_texture()
  warp,        \* main: warp_system
  whist        \* history: what the input and warp part of the current iteration did

fbvars == <<color, depth, background>>
histvars == <<calls, cleared, clearBg, lastOp>>
purevars == <<fn, arg, res>>
drawvars == <<stage, transformed_vertices, triangles, fragments, fragTri, written, stagelog>>
mainvars == <<step, frames, elapsed_time, delta_time, orbital_angle, pidx, ship_vertex_array, camera, ship,
              clears, framePoints, pointsBeforeClear, presents,
              drawn, pointsAfterPresent, warp, whist>>
vars == <<color, depth, background, calls, cleared, clearBg, lastOp, fn, arg, res,
          stage, transformed_vertices, triangles, fragments, fragTri, written, stagelog,
          step, frames, elapsed_time, delta_time, orbital_angle, pidx, ship_vertex_array, camera, ship,
          clears, framePoints, pointsBeforeClear, presents,
          drawn, pointsAfterPresent, warp, whist>>

----------------------------------------------------------------------------
(* Bounds of the model *)

FbWidth == 4        \* frame buffer width in pixels (800 in the program)
FbHeight == 4       \* frame buffer height in pixels (600 in the program)
MaxCalls == 2       \* point() calls followed per frame in the frame-buffer specification
Unit == 100         \* fixed-point scale: the f32 value v is the integer v * Unit

----------------------------------------------------------------------------
(* Frame buffer (framebuffer.rs): color plane, depth plane, depth test *)

Inf == 1000000
StarDepth == 999

\* colors are (r, g, b) triples of fixed-point values
Black == <<0, 0, 0>>
BackgroundColors == {Black, <<0, 0, 50>>}
PointColors == {<<100, 0, 0>>, <<0, 100, 0>>}
PointDepths == {1, 2}

Pixels == (0..(FbWidth - 1)) \X (0..(FbHeight - 1))

\* coordinates handed to point(): two opposite corner pixels and one position
\* beyond each border
PointCoords == {<<0, 0>>, <<FbWidth - 1, FbHeight - 1>>}
                 \cup {<<-1, 0>>, <<FbWidth, 0>>, <<0, -1>>, <<0, FbHeight>>}

FbInBounds(x, y) == x >= 0 /\ x < FbWidth /\ y >= 0 /\ y < FbHeight

\* Framebuffer::new: black background, far depth
FbNew == [color |-> [p \in Pixels |-> Black],
          depth |-> [p \in Pixels |-> Inf],
          background |-> Black]

\* mutant: clear() resets the colors and keeps the depths of the previous frame
FbClearColorOnly(fb) == [color |-> [p \in Pixels |-> fb.background],
                         depth |-> fb.depth,
                         background |-> fb.background]

\* Framebuffer::clear
FbClear(fb) == [color |-> [p \in Pixels |-> fb.background],
                depth |-> [p \in Pixels |-> Inf],
                background |-> fb.background]

\* mutant: the depth test accepts equal depths
FbPointAcceptEqual(fb, x, y, c, d) ==
  IF FbInBounds(x, y) /\ d <= fb.depth[<<x, y>>]
  THEN [fb EXCEPT !.color[<<x, y>>] = c, !.depth[<<x, y>>] = d]
  ELSE fb

\* mutant: no depth test, the last write wins
FbPointNoDepthTest(fb, x, y, c, d) ==
  IF FbInBounds(x, y)
  THEN [fb EXCEPT !.color[<<x, y>>] = c, !.depth[<<x, y>>] = d]
  ELSE fb

\* mutant: an accepted write stores the color and forgets the depth
FbPointKeepDepth(fb, x, y, c, d) ==
  IF FbInBounds(x, y) /\ d < fb.depth[<<x, y>>]
  THEN [fb EXCEPT !.color[<<x, y>>] = c]
  ELSE fb

\* mutant: coordinates beyond a border are moved onto the border pixel
FbPointClamped(fb, x, y, c, d) ==
  LET cx == IF x < 0 THEN 0 ELSE IF x >= FbWidth THEN FbWidth - 1 ELSE x
      cy == IF y < 0 THEN 0 ELSE IF y >= FbHeight THEN FbHeight - 1 ELSE y
  IN IF d < fb.depth[<<cx, cy>>]
     THEN [fb EXCEPT !.color[<<cx, cy>>] = c, !.depth[<<cx, cy>>] = d]
     ELSE fb

\* Framebuffer::point
FbPoint(fb, x, y, c, d) ==
  IF FbInBounds(x, y)
  THEN IF d < fb.depth[<<x, y>>]
       THEN [fb EXCEPT !.color[<<x, y>>] = c, !.depth[<<x, y>>] = d]
       ELSE fb
  ELSE fb

\* Framebuffer::set_background_color
FbSetBackgroundColor(fb, c) == [fb EXCEPT !.background = c]

Fb == [color |-> color, depth |-> depth, background |-> background]

SetFb(fb) ==
  /\ color' = fb.color
  /\ depth' = fb.depth
  /\ background' = fb.background

----------------------------------------------------------------------------
(* History of the frame-buffer operations *)

HistInit ==
  /\ calls = <<>>
  /\ cleared = FALSE
  /\ clearBg = Black
  /\ lastOp = "new"

HistClear ==
  /\ calls' = <<>>
  /\ cleared' = TRUE
  /\ clearBg' = background
  /\ lastOp' = "clear"

HistPoint(x, y, c, d) ==
  /\ calls' = Append(calls, [x |-> x, y |-> y, color |-> c, depth |-> d])
  /\ lastOp' = "point"
  /\ UNCHANGED <<cleared, clearBg>>

PureIdle ==
  /\ fn = "none"
  /\ arg = <<>>
  /\ res = <<>>

MainIdle ==
  /\ step = 0
  /\ frames = 0
  /\ elapsed_time = 0
  /\ delta_time = 0
  /\ orbital_angle = <<>>
  /\ pidx = 0
  /\ ship_vertex_array = <<>>
  /\ camera = <<>>
  /\ ship = <<>>
  /\ clears = 0
  /\ framePoints = 0
  /\ pointsBeforeClear = 0
  /\ presents = 0
  /\ drawn = <<>>
  /\ pointsAfterPresent = 0
  /\ warp = <<>>
  /\ whist = <<>>

DrawIdle ==
  /\ stage = "idle"
  /\ transformed_vertices = <<>>
  /\ triangles = <<>>
  /\ fragments = <<>>
  /\ fragTri = <<>>
  /\ written = 0
  /\ stagelog = <<>>

----------------------------------------------------------------------------
(* Specification of the frame buffer as an object: its operations in any order *)

FbConstructed ==
  /\ color = FbNew.color
  /\ depth = FbNew.depth
  /\ background = FbNew.background
  /\ HistInit

FbInit ==
  /\ FbConstructed
  /\ PureIdle
  /\ DrawIdle
  /\ MainIdle

FbSetBackgroundStep ==
  \E c \in BackgroundColors :
    /\ c # background
    /\ SetFb(FbSetBackgroundColor(Fb, c))
    /\ lastOp' = "set_background_color"
    /\ UNCHANGED <<calls, cleared, clearBg>>
    /\ UNCHANGED <<purevars, drawvars, mainvars>>

FbClearStep ==
  /\ SetFb(FbClear(Fb))
  /\ HistClear
  /\ UNCHANGED <<purevars, drawvars, mainvars>>

FbPointStep ==
  \E xy \in PointCoords, c \in PointColors, d \in PointDepths :
    /\ Len(calls) < MaxCalls
    /\ SetFb(FbPoint(Fb, xy[1], xy[2], c, d))
    /\ HistPoint(xy[1], xy[2], c, d)
    /\ UNCHANGED <<purevars, drawvars, mainvars>>

FbNext == FbSetBackgroundStep \/ FbClearStep \/ FbPointStep

FbSpec == FbInit /\ [][FbNext]_vars

----------------------------------------------------------------------------
(* Properties of the frame buffer *)

CallsAt(p) == {i \in 1..Len(calls) : <<calls[i].x, calls[i].y>> = p}

IsPointStep == Len(calls') = Len(calls) + 1

NewCall == calls'[Len(calls')]

\* C1: an in-bounds point(x, y, color, depth) overwrites the color and the depth
\* of pixel (x, y) exactly when depth is strictly less than the stored depth;
\* otherwise both planes stay as they were; no other pixel changes either way.
C1_PointDepthTest ==
  [][(IsPointStep /\ FbInBounds(NewCall.x, NewCall.y)) =>
       LET p == <<NewCall.x, NewCall.y>> IN
       /\ NewCall.depth < depth[p] =>
            (color'[p] = NewCall.color /\ depth'[p] = NewCall.depth)
       /\ NewCall.depth >= depth[p] => (color' = color /\ depth' = depth)
       /\ \A q \in Pixels \ {p} : color'[q] = color[q] /\ depth'[q] = depth[q]]_vars

\* C1 witness: a second write at a pixel with an equal or larger depth and
\* another color was discarded, after a first write had been accepted
C1_Witness ==
  /\ Len(calls) = 2
  /\ FbInBounds(calls[1].x, calls[1].y)
  /\ calls[2].x = calls[1].x /\ calls[2].y = calls[1].y
  /\ calls[2].depth >= calls[1].depth
  /\ calls[2].color # calls[1].color
  /\ color[<<calls[1].x, calls[1].y>>] = calls[1].color
  /\ depth[<<calls[1].x, calls[1].y>>] = calls[1].depth

MinDepthAt(p) ==
  IF CallsAt(p) = {} THEN Inf
  ELSE CHOOSE d \in {calls[i].depth : i \in CallsAt(p)} :
         \A i \in CallsAt(p) : d <= calls[i].depth

\* C2: after clear() and any point() calls, every pixel's depth is the least
\* depth of the in-bounds calls made at it since the clear (+infinity when there
\* were none) and its color is the color of a call that carried that depth
\* (the clear color when there were none).
C2_DepthIsMinimum ==
  cleared =>
    \A p \in Pixels :
      /\ depth[p] = MinDepthAt(p)
      /\ IF CallsAt(p) = {} THEN color[p] = clearBg
         ELSE \E i \in CallsAt(p) : calls[i].depth = depth[p] /\ calls[i].color = color[p]

\* C2 witness: two calls at one pixel since the clear, the nearer one made second
C2_Witness ==
  /\ cleared
  /\ Len(calls) = 2
  /\ FbInBounds(calls[1].x, calls[1].y)
  /\ calls[2].x = calls[1].x /\ calls[2].y = calls[1].y
  /\ calls[2].depth < calls[1].depth

Replay(fb, cs) ==
  LET RECURSIVE Go(_, _)
      Go(f, i) == IF i > Len(cs) THEN f
                  ELSE Go(FbPoint(f, cs[i].x, cs[i].y, cs[i].color, cs[i].depth), i + 1)
  IN Go(fb, 1)

Orders(n) == {f \in [1..n -> 1..n] : \A i, j \in 1..n : f[i] = f[j] => i = j}

Permuted(cs, f) == [i \in 1..Len(cs) |-> cs[f[i]]]

DepthsDifferPerPixel ==
  \A i, j \in 1..Len(calls) :
    (i # j /\ calls[i].x = calls[j].x /\ calls[i].y = calls[j].y)
      => calls[i].depth # calls[j].depth

ClearedFb == [color |-> [p \in Pixels |-> clearBg],
              depth |-> [p \in Pixels |-> Inf],
              background |-> background]

\* C3: when the depths of a frame's point() calls differ at each pixel, every
\* submission order of the calls yields the color and depth planes the actual
\* order yielded (for two calls d1 < d2 at a pixel the d1 call wins both ways).
C3_OrderIndependent ==
  DepthsDifferPerPixel =>
    \A f \in Orders(Len(calls)) :
      LET r == Replay(ClearedFb, Permuted(calls, f)) IN
      r.color = color /\ r.depth = depth

\* C3 witness: two calls at one pixel, the farther first, the nearer stored
C3_Witness ==
  /\ Len(calls) = 2
  /\ FbInBounds(calls[1].x, calls[1].y)
  /\ calls[2].x = calls[1].x /\ calls[2].y = calls[1].y
  /\ calls[1].depth > calls[2].depth
  /\ calls[1].color # calls[2].color
  /\ color[<<calls[2].x, calls[2].y>>] = calls[2].color
  /\ depth[<<calls[2].x, calls[2].y>>] = calls[2].depth

\* C4: clear() leaves every pixel at (background, +infinity) whatever the planes
\* held, and clear() followed by one in-bounds point(x, y, c, d) leaves pixel
\* (x, y) at (c, d) and every other pixel at (background, +infinity).
C4_ClearThenOnePoint ==
  /\ lastOp = "clear" =>
       \A p \in Pixels : color[p] = background /\ depth[p] = Inf
  /\ (cleared /\ Len(calls) = 1 /\ FbInBounds(calls[1].x, calls[1].y)) =>
       \A p \in Pixels :
         IF p = <<calls[1].x, calls[1].y>>
         THEN color[p] = calls[1].color /\ depth[p] = calls[1].depth
         ELSE color[p] = clearBg /\ depth[p] = Inf

\* C4 witness: a buffer written to in an earlier frame was cleared and then
\* written once
C4_Witness ==
  /\ cleared
  /\ Len(calls) = 1
  /\ FbInBounds(calls[1].x, calls[1].y)
  /\ depth[<<calls[1].x, calls[1].y>>] = calls[1].depth
  /\ calls[1].depth = 2

----------------------------------------------------------------------------
(* Fixed-point arithmetic standing for f32 *)

Abs(a) == IF a < 0 THEN -a ELSE a

\* the one element of a singleton set; { e(v) : v \in {x} } evaluates x once
Only(S) == CHOOSE x \in S : TRUE

Max(a, b) == IF a > b THEN a ELSE b

Min(a, b) == IF a < b THEN a ELSE b

\* quotient rounded toward zero
FDiv(a, b) ==
  IF (a >= 0) = (b > 0) THEN Abs(a) \div Abs(b) ELSE -(Abs(a) \div Abs(b))

\* the f32 literal n/d
Fx(n, d) == (n * Unit) \div d

\* a * b and a / b on fixed-point values
FxMul(a, b) == FDiv(a * b, Unit)

FxDiv(a, b) == FDiv(a * Unit, b)

\* the smallest positive value, standing for the guard literal 0.0001
Eps == Max(1, Fx(1, 10000))

\* the integer square root
RECURSIVE ISqrt(_)
ISqrt(n) ==
  IF n < 2 THEN n
  ELSE LET s == 2 * ISqrt(n \div 4) IN
       IF (s + 1) * (s + 1) <= n THEN s + 1 ELSE s

\* f32::sqrt
FxSqrt(a) == ISqrt(a * Unit)

Pi == Fx(314159, 100000)

\* f32::sin and f32::cos: the piecewise-linear interpolant through the
\* quarter-period points of the sine
FxSin(a) ==
  LET h == Pi \div 2
      t == a % (4 * h)
  IN IF t <= h THEN FDiv(t * Unit, h)
     ELSE IF t <= 3 * h THEN FDiv((2 * h - t) * Unit, h)
     ELSE FDiv((t - 4 * h) * Unit, h)

FxCos(a) == FxSin(a + Pi \div 2)

\* f32::atan2: the angle of (x, y), linear in y / (|x| + |y|) within a quadrant
FxAtan2(y, x) ==
  IF x = 0 /\ y = 0 THEN 0
  ELSE LET q == FDiv(Abs(y) * (Pi \div 2), Abs(x) + Abs(y))
       IN IF x >= 0 THEN (IF y >= 0 THEN q ELSE -q)
          ELSE (IF y >= 0 THEN Pi - q ELSE q - Pi)

----------------------------------------------------------------------------
(* Vectors, matrices, vertices, uniforms *)

\* raylib Matrix: entry m_i at index i, kept column by column; built here from rows
Mat(r1, r2, r3, r4) ==
  LET rows == <<r1, r2, r3, r4>> IN
  [i \in 0..15 |-> rows[(i % 4) + 1][(i \div 4) + 1]]

Identity4 == Mat(<<Unit, 0, 0, 0>>, <<0, Unit, 0, 0>>, <<0, 0, Unit, 0>>, <<0, 0, 0, Unit>>)

Translation(tx, ty, tz) ==
  Mat(<<Unit, 0, 0, tx>>, <<0, Unit, 0, ty>>, <<0, 0, Unit, tz>>, <<0, 0, 0, Unit>>)

\* a perspective projection: clip.w = -view.z
PerspectiveLike ==
  Mat(<<Unit, 0, 0, 0>>, <<0, Unit, 0, 0>>, <<0, 0, -Unit, -Unit>>, <<0, 0, -Unit, 0>>)

\* create_viewport_matrix(x, y, width, height): NDC [-1, 1] to pixels [0, width] x [0, height]
create_viewport_matrix(x, y, w, h) ==
  Mat(<<FDiv(w, 2), 0, 0, x + FDiv(w, 2)>>,
      <<0, -FDiv(h, 2), 0, y + FDiv(h, 2)>>,
      <<0, 0, Unit, 0>>,
      <<0, 0, 0, Unit>>)

\* Vertex::new
NewVertex(position, normal, tex_coords) ==
  [position |-> position, normal |-> normal, tex_coords |-> tex_coords,
   color |-> <<Unit, Unit, Unit>>,
   transformed_position |-> position, transformed_normal |-> normal]

VertexFields ==
  {"position", "normal", "tex_coords", "color", "transformed_position", "transformed_normal"}

\* multiply_matrix_vector4
multiply_matrix_vector4(m, v) ==
  <<FxMul(m[0], v[1]) + FxMul(m[4], v[2]) + FxMul(m[8], v[3]) + FxMul(m[12], v[4]),
    FxMul(m[1], v[1]) + FxMul(m[5], v[2]) + FxMul(m[9], v[3]) + FxMul(m[13], v[4]),
    FxMul(m[2], v[1]) + FxMul(m[6], v[2]) + FxMul(m[10], v[3]) + FxMul(m[14], v[4]),
    FxMul(m[3], v[1]) + FxMul(m[7], v[2]) + FxMul(m[11], v[3]) + FxMul(m[15], v[4])>>

----------------------------------------------------------------------------
(* Vertex stage (shaders.rs) *)

\* mutant: the divide is done only for a positive w
PerspectiveDividePositiveW(clip) ==
  IF clip[4] > 0
  THEN <<FxDiv(clip[1], clip[4]), FxDiv(clip[2], clip[4]), FxDiv(clip[3], clip[4])>>
  ELSE <<clip[1], clip[2], clip[3]>>

\* the perspective division of vertex_shader and vertex_shader_sun
PerspectiveDivide(clip) ==
  IF clip[4] # 0
  THEN <<FxDiv(clip[1], clip[4]), FxDiv(clip[2], clip[4]), FxDiv(clip[3], clip[4])>>
  ELSE <<clip[1], clip[2], clip[3]>>

\* the transformation chain both vertex shaders apply to a model-space
\* position; every intermediate value is kept
TransformChain(position, uniforms) ==
  LET position_vec4 == <<position[1], position[2], position[3], Unit>>
      world_position == multiply_matrix_vector4(uniforms.model_matrix, position_vec4)
      view_position == multiply_matrix_vector4(uniforms.view_matrix, world_position)
      clip_position == multiply_matrix_vector4(uniforms.projection_matrix, view_position)
      ndc == PerspectiveDivide(clip_position)
      ndc_vec4 == <<ndc[1], ndc[2], ndc[3], Unit>>
      screen_position == multiply_matrix_vector4(uniforms.viewport_matrix, ndc_vec4)
  IN [world_position |-> world_position,
      view_position |-> view_position,
      clip_position |-> clip_position,
      ndc |-> ndc,
      transformed_position |-> <<screen_position[1], screen_position[2], screen_position[3]>>]

\* mutant: the output vertex is built with Vertex::new and loses the input color
VertexShaderRunNewVertex(vertex, uniforms) ==
  LET chain == TransformChain(vertex.position, uniforms) IN
  [chain |-> chain,
   vertex |-> [NewVertex(vertex.position, vertex.normal, vertex.tex_coords)
                 EXCEPT !.transformed_position = chain.transformed_position]]

\* vertex_shader, with the intermediate values of its chain
VertexShaderRun(vertex, uniforms) ==
  LET chain == TransformChain(vertex.position, uniforms) IN
  [chain |-> chain,
   vertex |-> [position |-> vertex.position,
               normal |-> vertex.normal,
               tex_coords |-> vertex.tex_coords,
               color |-> vertex.color,
               transformed_position |-> chain.transformed_position,
               transformed_normal |-> vertex.normal]]

vertex_shader(vertex, uniforms) == VertexShaderRun(vertex, uniforms).vertex

\* the displaced position vertex_shader_sun feeds to the chain
SunFinalPosition(original_pos, time) ==
  LET distortion_freq == Fx(4, 1)
      distortion_amplitude == Fx(8, 100)
      wave1 == FxSin(FxMul(original_pos[1], distortion_freq) + FxMul(time, Fx(12, 10)))
      wave2 == FxCos(FxMul(original_pos[2], distortion_freq) + FxMul(time, Fx(15, 10)))
      wave3 == FxSin(FxMul(original_pos[3], distortion_freq) + FxMul(time, Fx(10, 10)))
      distortion == FxMul(FxDiv(wave1 + wave2 + wave3, Fx(3, 1)), distortion_amplitude)
      length == Max(FxSqrt(FxMul(original_pos[1], original_pos[1])
                           + FxMul(original_pos[2], original_pos[2])
                           + FxMul(original_pos[3], original_pos[3])), Eps)
      normal_dir == <<FxDiv(original_pos[1], length),
                      FxDiv(original_pos[2], length),
                      FxDiv(original_pos[3], length)>>
      displaced_position == <<original_pos[1] + FxMul(normal_dir[1], distortion),
                              original_pos[2] + FxMul(normal_dir[2], distortion),
                              original_pos[3] + FxMul(normal_dir[3], distortion)>>
      theta == FxAtan2(original_pos[2],
                       FxSqrt(FxMul(original_pos[1], original_pos[1])
                              + FxMul(original_pos[3], original_pos[3])))
      phi == FxAtan2(original_pos[3], original_pos[1])
      prominence_pattern ==
        Abs(FxMul(FxSin(FxMul(theta, Fx(8, 1)) + FxMul(time, Fx(8, 10))),
                  FxCos(FxMul(phi, Fx(6, 1)) + FxMul(time, Fx(6, 10)))))
      prominence_intensity ==
        IF prominence_pattern > Fx(85, 100)
        THEN FxMul(prominence_pattern - Fx(85, 100), Fx(3, 1))
        ELSE 0
      push == FxMul(prominence_intensity, Fx(15, 100))
  IN [length |-> length,
      normal_dir |-> normal_dir,
      final_position |-> <<displaced_position[1] + FxMul(normal_dir[1], push),
                           displaced_position[2] + FxMul(normal_dir[2], push),
                           displaced_position[3] + FxMul(normal_dir[3], push)>>]

\* mutant: the output vertex keeps the displaced position as its position
VertexShaderSunRunKeepsDisplaced(vertex, uniforms) ==
  LET sun == SunFinalPosition(vertex.position, uniforms.time)
      chain == TransformChain(sun.final_position, uniforms)
  IN [chain |-> chain,
      sun |-> sun,
      vertex |-> [position |-> sun.final_position,
                  normal |-> vertex.normal,
                  tex_coords |-> vertex.tex_coords,
                  color |-> vertex.color,
                  transformed_position |-> chain.transformed_position,
                  transformed_normal |-> vertex.normal]]

\* vertex_shader_sun, with the intermediate values of its chain
VertexShaderSunRun(vertex, uniforms) ==
  LET sun == SunFinalPosition(vertex.position, uniforms.time)
      chain == TransformChain(sun.final_position, uniforms)
  IN [chain |-> chain,
      sun |-> sun,
      vertex |-> [position |-> vertex.position,
                  normal |-> vertex.normal,
                  tex_coords |-> vertex.tex_coords,
                  color |-> vertex.color,
                  transformed_position |-> chain.transformed_position,
                  transformed_normal |-> vertex.normal]]

vertex_shader_sun(vertex, uniforms) == VertexShaderSunRun(vertex, uniforms).vertex

----------------------------------------------------------------------------
(* Specification of the vertex stage as a function: inputs from bounded sets *)

VsCoords == {-Unit, 0, Fx(1, 2), Unit}

VsPositions == {<<x, y, z>> : x \in VsCoords, y \in {0, Unit}, z \in VsCoords}

\* a vertex as Vertex::new makes it, and one that carries a color and the
\* transformed fields of an earlier pass
VsVertices ==
  {NewVertex(p, <<0, 0, Unit>>, <<0, 0>>) : p \in VsPositions}
  \cup
  {[position |-> p, normal |-> <<0, Unit, 0>>, tex_coords |-> <<Fx(1, 2), Unit>>,
    color |-> <<Unit, 0, Fx(1, 2)>>,
    transformed_position |-> <<7 * Unit, 7 * Unit, 7 * Unit>>,
    transformed_normal |-> <<Unit, 0, 0>>] : p \in VsPositions}

VsUniforms ==
  [model_matrix : {Identity4, Translation(0, 0, -Unit)},
   view_matrix : {Identity4},
   projection_matrix : {Identity4, PerspectiveLike},
   viewport_matrix : {create_viewport_matrix(0, 0, FbWidth * Unit, FbHeight * Unit)},
   time : {0, Fx(5, 2)}]

VsInit ==
  /\ FbConstructed
  /\ fn = "none"
  /\ arg \in [vertex : VsVertices, uniforms : VsUniforms]
  /\ res = <<>>
  /\ DrawIdle
  /\ MainIdle

VsVertexShader ==
  /\ fn = "none"
  /\ fn' = "vertex_shader"
  /\ res' = VertexShaderRun(arg.vertex, arg.uniforms)
  /\ UNCHANGED <<arg, fbvars, histvars, drawvars, mainvars>>

VsVertexShaderSun ==
  /\ fn = "none"
  /\ fn' = "vertex_shader_sun"
  /\ res' = VertexShaderSunRun(arg.vertex, arg.uniforms)
  /\ UNCHANGED <<arg, fbvars, histvars, drawvars, mainvars>>

VsNext == VsVertexShader \/ VsVertexShaderSun

VsSpec == VsInit /\ [][VsNext]_vars

\* C10: in vertex_shader and vertex_shader_sun the NDC position is
\* (clip.x/w, clip.y/w, clip.z/w) when clip.w is not 0 and (clip.x, clip.y, clip.z)
\* when clip.w is 0, and in both cases a vertex is returned.
C10_PerspectiveDivide ==
  fn \in {"vertex_shader", "vertex_shader_sun"} =>
    LET clip == res.chain.clip_position IN
    /\ clip[4] # 0 =>
         res.chain.ndc = <<FxDiv(clip[1], clip[4]), FxDiv(clip[2], clip[4]),
                           FxDiv(clip[3], clip[4])>>
    /\ clip[4] = 0 => res.chain.ndc = <<clip[1], clip[2], clip[3]>>
    /\ DOMAIN res.vertex = VertexFields
    /\ res.vertex.transformed_position =
         LET n == res.chain.ndc IN
         LET s == multiply_matrix_vector4(arg.uniforms.viewport_matrix,
                                          <<n[1], n[2], n[3], Unit>>)
         IN <<s[1], s[2], s[3]>>

\* C10 witness: vertex_shader_sun returned a vertex for a clip position with w = 0
\* whose x is not 0
C10_Witness ==
  /\ fn = "vertex_shader_sun"
  /\ res.chain.clip_position[4] = 0
  /\ res.chain.clip_position[1] # 0
  /\ res.chain.ndc[1] = res.chain.clip_position[1]

\* C11: the vertex stage returns a vertex whose position, normal, tex_coords and
\* color are those of the input vertex and whose transformed_normal is the input
\* normal as it is; only transformed_position is computed; the input vertex and
\* the uniforms are left as they were.
C11_VertexStagePreserves ==
  [][(fn = "none" /\ fn' \in {"vertex_shader", "vertex_shader_sun"}) =>
       /\ arg' = arg
       /\ DOMAIN res'.vertex = VertexFields
       /\ res'.vertex.position = arg.vertex.position
       /\ res'.vertex.normal = arg.vertex.normal
       /\ res'.vertex.tex_coords = arg.vertex.tex_coords
       /\ res'.vertex.color = arg.vertex.color
       /\ res'.vertex.transformed_normal = arg.vertex.normal
       /\ res'.vertex.transformed_position = res'.chain.transformed_position]_vars

\* C11 witness: a vertex with its own color and a stale transformed_normal went
\* through vertex_shader and came out with a new transformed_position
C11_Witness ==
  /\ fn = "vertex_shader"
  /\ arg.vertex.color # <<Unit, Unit, Unit>>
  /\ arg.vertex.transformed_normal # arg.vertex.normal
  /\ res.vertex.transformed_normal = arg.vertex.normal
  /\ res.vertex.transformed_position # arg.vertex.transformed_position
  /\ arg.uniforms.model_matrix # Identity4

\* C12: the transformed_position vertex_shader_sun computes for v is the one
\* vertex_shader computes for v with its position replaced by the displaced
\* position, and the position of the output of vertex_shader_sun is v.position.
C12_SunSharesChain ==
  fn = "vertex_shader_sun" =>
    LET displaced == [arg.vertex EXCEPT !.position = res.sun.final_position] IN
    /\ res.vertex.transformed_position
         = vertex_shader(displaced, arg.uniforms).transformed_position
    /\ res.vertex.position = arg.vertex.position

\* C12 witness: the displacement moved the vertex, on the model and on the screen
C12_Witness ==
  /\ fn = "vertex_shader_sun"
  /\ res.sun.final_position # arg.vertex.position
  /\ res.vertex.transformed_position
       # vertex_shader(arg.vertex, arg.uniforms).transformed_position
  /\ res.vertex.position = arg.vertex.position

----------------------------------------------------------------------------
(* Triangle rasterizer (triangle.rs) *)

Sgn(a) == IF a > 0 THEN 1 ELSE IF a < 0 THEN -1 ELSE 0

FxFloor(a) == a \div Unit

FxCeil(a) == -((-a) \div Unit)

Min3(a, b, c) == Min(a, Min(b, c))

Max3(a, b, c) == Max(a, Max(b, c))

\* Light::new
NewLight(position) == [position |-> position]

\* twice the signed area of (a, b, p), on the screen x and y of the positions
EdgeFunction(a, b, p) ==
  (b[1] - a[1]) * (p[2] - a[2]) - (b[2] - a[2]) * (p[1] - a[1])

\* the barycentric weights of p in (a, b, c) as numerators over the common
\* denominator area
BarycentricCoordinates(p, a, b, c) ==
  [area |-> EdgeFunction(a, b, c),
   w1 |-> EdgeFunction(b, c, p),
   w2 |-> EdgeFunction(c, a, p),
   w3 |-> EdgeFunction(a, b, p)]

\* mutant: pixels with a zero weight (on an edge) are left out
WeightsInsideStrict(w) ==
  /\ w.area # 0
  /\ Sgn(w.w1) * Sgn(w.area) > 0
  /\ Sgn(w.w2) * Sgn(w.area) > 0
  /\ Sgn(w.w3) * Sgn(w.area) > 0

\* the inside test: all three weights are non-negative
WeightsInside(w) ==
  /\ w.area # 0
  /\ Sgn(w.w1) * Sgn(w.area) >= 0
  /\ Sgn(w.w2) * Sgn(w.area) >= 0
  /\ Sgn(w.w3) * Sgn(w.area) >= 0

\* a value interpolated by the weights
Interpolate(w, va, vb, vc) == FDiv(w.w1 * va + w.w2 * vb + w.w3 * vc, w.area)

\* the pixels of the bounding box of the triangle, row by row
BoundingBoxPixels(a, b, c) ==
  LET min_x == FxFloor(Min3(a[1], b[1], c[1]))
      max_x == FxCeil(Max3(a[1], b[1], c[1]))
      min_y == FxFloor(Min3(a[2], b[2], c[2]))
      max_y == FxCeil(Max3(a[2], b[2], c[2]))
      cols == max_x - min_x + 1
      rows == max_y - min_y + 1
  IN [k \in 1..(cols * rows) |-> <<min_x + ((k - 1) % cols), min_y + ((k - 1) \div cols)>>]

\* the flat lighting factor of the triangle
LightIntensity(v1, light) ==
  LET l == light.position
      len == Max(FxSqrt(FxMul(l[1], l[1]) + FxMul(l[2], l[2]) + FxMul(l[3], l[3])), Eps)
      n == v1.transformed_normal
  IN Max(0, FxMul(n[1], FxDiv(l[1], len)) + FxMul(n[2], FxDiv(l[2], len))
            + FxMul(n[3], FxDiv(l[3], len)))

\* the fragment of pixel px
FragmentAt(px, v1, v2, v3, light) ==
  LET a == v1.transformed_position
      b == v2.transformed_position
      c == v3.transformed_position
      w == BarycentricCoordinates(<<px[1] * Unit, px[2] * Unit>>, a, b, c)
      intensity == LightIntensity(v1, light)
  IN [position |-> <<px[1] * Unit, px[2] * Unit>>,
      color |-> [i \in 1..3 |->
                   FxMul(Interpolate(w, v1.color[i], v2.color[i], v3.color[i]), intensity)],
      depth |-> Interpolate(w, a[3], b[3], c[3]),
      world_position |-> [i \in 1..3 |->
                   Interpolate(w, v1.position[i], v2.position[i], v3.position[i])]]

\* triangle(v1, v2, v3, light): the fragments of the covered pixels, in scan order
triangle(v1, v2, v3, light) ==
  LET a == v1.transformed_position
      b == v2.transformed_position
      c == v3.transformed_position
      covered == SelectSeq(BoundingBoxPixels(a, b, c),
                   LAMBDA px : WeightsInside(
                     BarycentricCoordinates(<<px[1] * Unit, px[2] * Unit>>, a, b, c)))
  IN [k \in 1..Len(covered) |-> FragmentAt(covered[k], v1, v2, v3, light)]

----------------------------------------------------------------------------
(* Specification of the rasterizer as a function: two triangles on a small grid *)

RasterGrid == 2     \* triangle corners lie on the pixels 0..RasterGrid of both axes

MainLight == NewLight(<<5 * Unit, 5 * Unit, 5 * Unit>>)

GridPoints == (0..RasterGrid) \X (0..RasterGrid)

\* a vertex already transformed to screen pixel (x, y) at depth z
ScreenVertex(x, y, z) ==
  [NewVertex(<<x * Unit, y * Unit, z>>, <<0, 0, Unit>>, <<0, 0>>)
     EXCEPT !.transformed_position = <<x * Unit, y * Unit, z>>]

\* triangles (a, b, c) and (b, a, d): they share the edge a-b
TrianglePairs ==
  {[a |-> ScreenVertex(pa[1], pa[2], Fx(1, 2)),
    b |-> ScreenVertex(pb[1], pb[2], Fx(1, 2)),
    c |-> ScreenVertex(pc[1], pc[2], Fx(1, 4)),
    d |-> ScreenVertex(pd[1], pd[2], Unit)] :
     pa \in GridPoints, pb \in GridPoints, pc \in GridPoints, pd \in GridPoints}

\* the triangle (10,10,0.5), (20,10,0.5), (10,20,0.5) of the test scenario, and
\* its mirror image across the shared hypotenuse
ScenarioPair ==
  [a |-> ScreenVertex(20, 10, Fx(1, 2)),
   b |-> ScreenVertex(10, 20, Fx(1, 2)),
   c |-> ScreenVertex(10, 10, Fx(1, 2)),
   d |-> ScreenVertex(20, 20, Fx(1, 2))]

RasterInit ==
  /\ FbConstructed
  /\ fn = "none"
  /\ arg \in TrianglePairs \cup {ScenarioPair}
  /\ res = <<>>
  /\ DrawIdle
  /\ MainIdle

RasterTriangle ==
  /\ fn = "none"
  /\ fn' = "triangle"
  /\ res' = [first |-> triangle(arg.a, arg.b, arg.c, MainLight),
             second |-> triangle(arg.b, arg.a, arg.d, MainLight)]
  /\ UNCHANGED <<arg, fbvars, histvars, drawvars, mainvars>>

RasterNext == RasterTriangle

RasterSpec == RasterInit /\ [][RasterNext]_vars

ScreenXY(v) == <<v.transformed_position[1], v.transformed_position[2]>>

FragmentPixels(frags) ==
  {<<FDiv(frags[k].position[1], Unit), FDiv(frags[k].position[2], Unit)>> :
     k \in 1..Len(frags)}

\* pixel p lies on the segment a-b
OnSegment(p, a, b) ==
  /\ EdgeFunction(a, b, p) = 0
  /\ Min(a[1], b[1]) <= p[1] /\ p[1] <= Max(a[1], b[1])
  /\ Min(a[2], b[2]) <= p[2] /\ p[2] <= Max(a[2], b[2])

\* c and d lie strictly on opposite sides of the line a-b
OppositeSides(a, b, c, d) ==
  Sgn(EdgeFunction(a, b, c)) * Sgn(EdgeFunction(a, b, d)) < 0

SharedEdgePixels ==
  LET a == ScreenXY(arg.a)
      b == ScreenXY(arg.b)
  IN {p \in (FxFloor(Min(a[1], b[1]))..FxCeil(Max(a[1], b[1])))
             \X (FxFloor(Min(a[2], b[2]))..FxCeil(Max(a[2], b[2]))) :
        OnSegment(<<p[1] * Unit, p[2] * Unit>>, a, b)}

C8_NoGapOnSharedEdge ==
  (fn = "triangle"
   /\ OppositeSides(ScreenXY(arg.a), ScreenXY(arg.b), ScreenXY(arg.c), ScreenXY(arg.d)))
    => \A p \in SharedEdgePixels :
         (p \in FragmentPixels(res.first)) \/ (p \in FragmentPixels(res.second))

\* the weights of pixel p in triangle (a, b, c) by Cramer's rule, as numerators
\* over the determinant det
ClaimWeights(p, a, b, c) ==
  LET det == (b[2] - c[2]) * (a[1] - c[1]) + (c[1] - b[1]) * (a[2] - c[2])
      n1 == (b[2] - c[2]) * (p[1] - c[1]) + (c[1] - b[1]) * (p[2] - c[2])
      n2 == (c[2] - a[2]) * (p[1] - c[1]) + (a[1] - c[1]) * (p[2] - c[2])
  IN [det |-> det, n1 |-> n1, n2 |-> n2, n3 |-> det - n1 - n2]

AllNonNegative(w) ==
  \/ w.det > 0 /\ w.n1 >= 0 /\ w.n2 >= 0 /\ w.n3 >= 0
  \/ w.det < 0 /\ w.n1 <= 0 /\ w.n2 <= 0 /\ w.n3 <= 0

BoxOf(a, b, c) ==
  {p \in (FxFloor(Min3(a[1], b[1], c[1]))..FxCeil(Max3(a[1], b[1], c[1])))
         \X (FxFloor(Min3(a[2], b[2], c[2]))..FxCeil(Max3(a[2], b[2], c[2]))) : TRUE}

----------------------------------------------------------------------------
(* Fragment stage (shaders.rs): the surface shaders and their dispatch *)

PlanetType == {"Rocky", "GasGiant", "SciFi", "Ice", "Volcanic", "Ring", "Moon", "Sun", "Ship"}

\* the value of a procedural shader: its name and the inputs it reads
Shaded(name, world_position, base_color, time) == <<name, world_position, base_color, time>>

shader_rocky_planet(fragment, time) ==
  Shaded("shader_rocky_planet", fragment.world_position, fragment.color, time)

shader_gas_giant(fragment, time) ==
  Shaded("shader_gas_giant", fragment.world_position, fragment.color, time)

shader_scifi_planet(fragment, time) ==
  Shaded("shader_scifi_planet", fragment.world_position, fragment.color, time)

shader_ice_planet(fragment, time) ==
  Shaded("shader_ice_planet", fragment.world_position, fragment.color, time)

shader_volcanic_planet(fragment, time) ==
  Shaded("shader_volcanic_planet", fragment.world_position, fragment.color, time)

shader_rings(fragment, time) ==
  Shaded("shader_rings", fragment.world_position, fragment.color, time)

\* mutant: the moon shader also reads the depth of the fragment
shader_moon_reads_depth(fragment, time) ==
  Shaded("shader_moon", fragment.world_position, <<fragment.color, fragment.depth>>, time)

shader_moon(fragment, time) ==
  Shaded("shader_moon", fragment.world_position, fragment.color, time)

shader_sun(fragment, time) ==
  Shaded("shader_sun", fragment.world_position, <<>>, time)

\* shader_ship: a gray scaled by the brightest channel of the fragment color,
\* never below 0.3
shader_ship(fragment, time) ==
  LET base_color == fragment.color
      brightness == Max3(base_color[1], base_color[2], base_color[3])
      final_brightness == Max(brightness, Fx(3, 10))
  IN <<Min(FxMul(FxMul(Fx(7, 10), final_brightness), Fx(12, 10)), Unit),
       Min(FxMul(FxMul(Fx(7, 10), final_brightness), Fx(12, 10)), Unit),
       Min(FxMul(FxMul(Fx(75, 100), final_brightness), Fx(12, 10)), Unit)>>

\* mutant: the shaders animate by the number of calls made so far
fragment_shader_planet_CountsCalls(fragment, uniforms, planet_type) ==
  LET time == uniforms.time + res.count * Unit IN
  CASE planet_type = "Rocky" -> shader_rocky_planet(fragment, time)
    [] planet_type = "GasGiant" -> shader_gas_giant(fragment, time)
    [] planet_type = "SciFi" -> shader_scifi_planet(fragment, time)
    [] planet_type = "Ice" -> shader_ice_planet(fragment, time)
    [] planet_type = "Volcanic" -> shader_volcanic_planet(fragment, time)
    [] planet_type = "Ring" -> shader_rings(fragment, time)
    [] planet_type = "Moon" -> shader_moon(fragment, time)
    [] planet_type = "Sun" -> shader_sun(fragment, time)
    [] planet_type = "Ship" -> shader_ship(fragment, time)

\* mutant: the moon is shaded as a rocky planet
fragment_shader_planet_MoonAsRocky(fragment, uniforms, planet_type) ==
  LET time == uniforms.time IN
  CASE planet_type = "Rocky" -> shader_rocky_planet(fragment, time)
    [] planet_type = "GasGiant" -> shader_gas_giant(fragment, time)
    [] planet_type = "SciFi" -> shader_scifi_planet(fragment, time)
    [] planet_type = "Ice" -> shader_ice_planet(fragment, time)
    [] planet_type = "Volcanic" -> shader_volcanic_planet(fragment, time)
    [] planet_type = "Ring" -> shader_rings(fragment, time)
    [] planet_type = "Sun" -> shader_sun(fragment, time)
    [] planet_type = "Ship" -> shader_ship(fragment, time)
    [] OTHER -> shader_rocky_planet(fragment, time)

fragment_shader_planet(fragment, uniforms, planet_type) ==
  LET time == uniforms.time IN
  CASE planet_type = "Rocky" -> shader_rocky_planet(fragment, time)
    [] planet_type = "GasGiant" -> shader_gas_giant(fragment, time)
    [] planet_type = "SciFi" -> shader_scifi_planet(fragment, time)
    [] planet_type = "Ice" -> shader_ice_planet(fragment, time)
    [] planet_type = "Volcanic" -> shader_volcanic_planet(fragment, time)
    [] planet_type = "Ring" -> shader_rings(fragment, time)
    [] planet_type = "Moon" -> shader_moon(fragment, time)
    [] planet_type = "Sun" -> shader_sun(fragment, time)
    [] planet_type = "Ship" -> shader_ship(fragment, time)

----------------------------------------------------------------------------
(* Specification of the fragment stage as a function: a series of calls of
   fragment_shader_planet, of which the first and the latest are kept *)

MaxShaderCalls == 3   \* calls of fragment_shader_planet followed

FsWorldPositions == {<<Unit, 0, 0>>, <<0, Fx(1, 2), Unit>>}

\* fragments: per world position one as Fragment::new_with_world_pos gets it from
\* the rasterizer, one of another color, one at another pixel and depth
FsFragments ==
  {[position |-> <<0, 0>>, color |-> <<Unit, Unit, Unit>>, depth |-> Fx(1, 2),
    world_position |-> wp] : wp \in FsWorldPositions}
  \cup
  {[position |-> <<0, 0>>, color |-> <<Fx(1, 2), Fx(1, 4), 0>>, depth |-> Fx(1, 2),
    world_position |-> wp] : wp \in FsWorldPositions}
  \cup
  {[position |-> <<2 * Unit, Unit>>, color |-> <<Unit, Unit, Unit>>, depth |-> Fx(9, 10),
    world_position |-> wp] : wp \in FsWorldPositions}

FsTimes == {0, Fx(5, 2)}

FsUniforms ==
  [model_matrix : {Identity4},
   view_matrix : {Identity4},
   projection_matrix : {Identity4},
   viewport_matrix : {create_viewport_matrix(0, 0, FbWidth * Unit, FbHeight * Unit)},
   time : FsTimes]

FsInputs == [fragment : FsFragments, uniforms : FsUniforms, planet_type : PlanetType]

FsInit ==
  /\ FbConstructed
  /\ fn = "none"
  /\ arg = <<>>
  /\ res = [count |-> 0, first |-> <<>>, last |-> <<>>]
  /\ DrawIdle
  /\ MainIdle

\* one call of fragment_shader_planet
FsFragmentShaderPlanet ==
  /\ res.count < MaxShaderCalls
  /\ \E input \in FsInputs :
       LET call == [input |-> input,
                    color |-> fragment_shader_planet(input.fragment, input.uniforms,
                                                     input.planet_type)]
       IN /\ arg' = input
          /\ res' = [count |-> res.count + 1,
                     first |-> IF res.count = 0 THEN call ELSE res.first,
                     last |-> call]
  /\ fn' = "fragment_shader_planet"
  /\ UNCHANGED <<fbvars, histvars, drawvars, mainvars>>

FsNext == FsFragmentShaderPlanet

FsSpec == FsInit /\ [][FsNext]_vars

\* C14: fragment_shader_planet returns, for each of the nine surface types, the
\* result of that type's shading function on the same fragment and uniforms.time;
\* the tag is one of the nine and no tag gets the function of another tag.
C14_ExhaustiveDispatch ==
  fn = "fragment_shader_planet" =>
    LET f == arg.fragment
        t == arg.uniforms.time
        tag == arg.planet_type
        out == res.last.color
        table == [Rocky |-> shader_rocky_planet(f, t),
                  GasGiant |-> shader_gas_giant(f, t),
                  SciFi |-> shader_scifi_planet(f, t),
                  Ice |-> shader_ice_planet(f, t),
                  Volcanic |-> shader_volcanic_planet(f, t),
                  Ring |-> shader_rings(f, t),
                  Moon |-> shader_moon(f, t),
                  Sun |-> shader_sun(f, t),
                  Ship |-> shader_ship(f, t)]
    IN /\ tag \in PlanetType
       /\ DOMAIN table = PlanetType
       /\ res.last.input = arg
       /\ out = table[tag]
       /\ \A other \in PlanetType \ {tag} : out # table[other]

\* C14 witness: each of the nine tags has been dispatched; here the hull tag, after
\* a call with another tag
C14_Witness ==
  /\ fn = "fragment_shader_planet"
  /\ res.count = 2
  /\ res.first.input.planet_type = "Moon"
  /\ arg.planet_type = "Ship"
  /\ res.last.color = shader_ship(arg.fragment, arg.uniforms.time)

\* the first and the latest call have the same surface type and time
SameTypeAndTime ==
  /\ res.count >= 2
  /\ res.first.input.planet_type = res.last.input.planet_type
  /\ res.first.input.uniforms.time = res.last.input.uniforms.time

SameWorldPosition ==
  res.first.input.fragment.world_position = res.last.input.fragment.world_position

SameFragmentColor == res.first.input.fragment.color = res.last.input.fragment.color

----------------------------------------------------------------------------
(* Shader arithmetic (shaders.rs): spherical_coords, the noise helpers and the
   colors shader_sun and shader_rocky_planet compute *)

\* f32::fract: the part after the decimal point, with the sign of the value
FxFract(a) == a - FDiv(a, Unit) * Unit

\* f32::floor, as a fixed-point value
FxFloorF(a) == (a \div Unit) * Unit

\* f32::powf(0.4) on [0, 1]: the piecewise-linear interpolant through the
\* values at 0, 1/4 and 1
FxPowf04(a) ==
  IF a <= Fx(1, 4) THEN FDiv(a * Fx(574, 1000), Fx(1, 4))
  ELSE Fx(574, 1000) + FDiv((a - Fx(1, 4)) * (Unit - Fx(574, 1000)), Unit - Fx(1, 4))

V3Scaled(v, k) == <<FxMul(v[1], k), FxMul(v[2], k), FxMul(v[3], k)>>

\* a + (b - a) * t on every channel
V3Lerp(a, b, t) ==
  <<a[1] + FxMul(b[1] - a[1], t), a[2] + FxMul(b[2] - a[2], t), a[3] + FxMul(b[3] - a[3], t)>>

\* mutant: the radius is floored at 1.0
spherical_coords_UnitFloor(pos) ==
  LET r == FxSqrt(FxMul(pos[1], pos[1]) + FxMul(pos[2], pos[2]) + FxMul(pos[3], pos[3]))
      r_xy == FxSqrt(FxMul(pos[1], pos[1]) + FxMul(pos[3], pos[3]))
      theta == IF r_xy > Eps \/ Abs(pos[2]) > Eps THEN FxAtan2(pos[2], r_xy) ELSE 0
      phi == IF Abs(pos[1]) > Eps \/ Abs(pos[3]) > Eps THEN FxAtan2(pos[3], pos[1]) ELSE 0
  IN <<Max(r, Unit), theta, phi>>

\* mutant: the radius is the radius of the sun's mesh, 3.0
spherical_coords_SunRadius(pos) ==
  LET r_xy == FxSqrt(FxMul(pos[1], pos[1]) + FxMul(pos[3], pos[3]))
      theta == IF r_xy > Eps \/ Abs(pos[2]) > Eps THEN FxAtan2(pos[2], r_xy) ELSE 0
      phi == IF Abs(pos[1]) > Eps \/ Abs(pos[3]) > Eps THEN FxAtan2(pos[3], pos[1]) ELSE 0
  IN <<3 * Unit, theta, phi>>

\* spherical_coords: (radius floored at 0.0001, latitude, longitude)
spherical_coords(pos) ==
  LET r == FxSqrt(FxMul(pos[1], pos[1]) + FxMul(pos[2], pos[2]) + FxMul(pos[3], pos[3]))
      r_xy == FxSqrt(FxMul(pos[1], pos[1]) + FxMul(pos[3], pos[3]))
      theta == IF r_xy > Eps \/ Abs(pos[2]) > Eps THEN FxAtan2(pos[2], r_xy) ELSE 0
      phi == IF Abs(pos[1]) > Eps \/ Abs(pos[3]) > Eps THEN FxAtan2(pos[3], pos[1]) ELSE 0
  IN <<Max(r, Eps), theta, phi>>

noise_3d(pos, time) ==
  LET scale == Fx(4, 1)
      n1 == FxMul(FxSin(FxMul(pos[1], scale) + FxMul(time, Fx(1, 10))), Fx(1, 2)) + Fx(1, 2)
      n2 == FxMul(FxSin(FxMul(FxMul(pos[2], scale), Fx(13, 10)) + FxMul(time, Fx(15, 100))),
                  Fx(1, 2)) + Fx(1, 2)
      n3 == FxMul(FxSin(FxMul(FxMul(pos[3], scale), Fx(7, 10)) + FxMul(time, Fx(12, 100))),
                  Fx(1, 2)) + Fx(1, 2)
  IN FxDiv(n1 + n2 + n3, Fx(3, 1))

\* the loop of fractal_noise from an octave on: value accumulated over the
\* remaining octaves, amplitude halving and frequency doubling per octave
RECURSIVE FractalOctaves(_, _, _, _, _)
FractalOctaves(pos, time, octaves, amplitude, frequency) ==
  IF octaves <= 0 THEN 0
  ELSE FxMul(noise_3d(V3Scaled(pos, frequency), time), amplitude)
       + FractalOctaves(pos, time, octaves - 1, FxMul(amplitude, Fx(1, 2)),
                        FxMul(frequency, Fx(2, 1)))

fractal_noise(pos, time, octaves) ==
  FractalOctaves(pos, time, octaves, Fx(1, 2), Unit)

\* the minimum intensity of shader_sun
min_intensity == Fx(1, 2)

\* mutant: the combined color is scaled and capped without the lower floors
SunFinalColorNoFloor(combined_color) ==
  <<Min(FxMul(combined_color[1], Fx(15, 10)), Fx(3, 1)),
    Min(FxMul(combined_color[2], Fx(15, 10)), Fx(3, 1)),
    Min(FxMul(combined_color[3], Fx(15, 10)), Fx(3, 1))>>

\* the value shader_sun returns for a combined color: per channel a floor
\* (min_intensity, half of it, a fifth of it), the factor 1.5, the cap 3.0
SunFinalColor(combined_color) ==
  <<Min(FxMul(Max(combined_color[1], min_intensity), Fx(15, 10)), Fx(3, 1)),
    Min(FxMul(Max(combined_color[2], FxMul(min_intensity, Fx(1, 2))), Fx(15, 10)), Fx(3, 1)),
    Min(FxMul(Max(combined_color[3], FxMul(min_intensity, Fx(2, 10))), Fx(15, 10)), Fx(3, 1))>>

\* shader_sun, with the values it passes through
SunShade(fragment, time) ==
  LET world_pos == fragment.world_position
      sc == spherical_coords(world_pos)
      r == sc[1]
      theta == sc[2]
      phi == sc[3]
      \* layer 1: turbulence
      perlin_octave1 == fractal_noise(world_pos, FxMul(time, Fx(3, 10)), 6)
      perlin_octave2 == fractal_noise(V3Scaled(world_pos, Fx(23, 10)), FxMul(time, Fx(25, 100)), 4)
      perlin_octave3 == fractal_noise(V3Scaled(world_pos, Fx(47, 10)), FxMul(time, Fx(4, 10)), 3)
  IN Only({LET
      \* layer 2: cells and sunspots
      cell_scale == Fx(8, 1)
      cell_x == FxFloorF(FxMul(world_pos[1], cell_scale) + FxMul(time, Fx(1, 10)))
      cell_y == FxFloorF(FxMul(world_pos[2], cell_scale) + FxMul(time, Fx(8, 100)))
      cell_z == FxFloorF(FxMul(world_pos[3], cell_scale) + FxMul(time, Fx(12, 100)))
      cell_seed == FxMul(cell_x, Fx(1271, 10)) + FxMul(cell_y, Fx(3117, 10))
                   + FxMul(cell_z, Fx(747, 10))
      cell_random == FxFract(FxMul(FxSin(cell_seed), Fx(4375854, 100)))
      cell_dist == FxMul(Abs(FxMul(world_pos[1], cell_scale) - cell_x)
                         + Abs(FxMul(world_pos[2], cell_scale) - cell_y)
                         + Abs(FxMul(world_pos[3], cell_scale) - cell_z), Fx(1, 2))
      cellular_pattern == FxMul(Unit - Min(cell_dist, Unit), cell_random)
      sunspot_threshold == Fx(7, 10)
      is_sunspot == IF cellular_pattern > sunspot_threshold
                    THEN Fx(4, 10) + FxMul(cellular_pattern, Fx(3, 10))
                    ELSE Unit
      \* layer 3: plasma flows
      simplex_freq1 == Fx(35, 10)
      simplex_freq2 == Fx(72, 10)
      simplex_flow1 ==
        FxMul(FxMul(FxMul(FxSin(FxMul(world_pos[1], simplex_freq1) + FxMul(time, Fx(5, 10))),
                          FxCos(FxMul(world_pos[2], simplex_freq1) - FxMul(time, Fx(4, 10)))),
                    FxSin(FxMul(world_pos[3], simplex_freq1) + FxMul(time, Fx(6, 10)))),
              Fx(1, 2)) + Fx(1, 2)
      simplex_flow2 ==
        FxMul(FxMul(FxMul(FxCos(FxMul(world_pos[1], simplex_freq2) - FxMul(time, Fx(7, 10))),
                          FxSin(FxMul(world_pos[2], simplex_freq2) + FxMul(time, Fx(5, 10)))),
                    FxCos(FxMul(world_pos[3], simplex_freq2) - FxMul(time, Fx(8, 10)))),
              Fx(1, 2)) + Fx(1, 2)
      simplex_plasma == FxMul(simplex_flow1, Fx(6, 10)) + FxMul(simplex_flow2, Fx(4, 10))
      \* layer 4: emission
      base_pulse == FxMul(FxSin(FxMul(time, Fx(15, 10))), Fx(15, 100)) + Fx(85, 100)
      energy_spike1 ==
        Abs(FxMul(FxSin(FxMul(theta, Fx(8, 1)) + FxMul(time, Fx(2, 1))),
                  FxCos(FxMul(phi, Fx(6, 1)) + FxMul(time, Fx(15, 10)))))
      energy_spike2 ==
        Abs(FxMul(FxCos(FxMul(theta, Fx(12, 1)) - FxMul(time, Fx(18, 10))),
                  FxSin(FxMul(phi, Fx(10, 1)) - FxMul(time, Fx(22, 10)))))
      energy_spikes == FxMul(energy_spike1 + energy_spike2, Fx(1, 2))
      high_energy_regions ==
        IF energy_spikes > Fx(75, 100)
        THEN Unit + FxMul(energy_spikes - Fx(75, 100), Fx(4, 1))
        ELSE Unit
      emission_intensity ==
        FxMul(FxMul(base_pulse, high_energy_regions),
              Fx(8, 10) + FxMul(perlin_turbulence, Fx(4, 10)))
      \* layer 5: temperature and base color
      distance_from_center ==
        FxSqrt(FxMul(world_pos[1], world_pos[1]) + FxMul(world_pos[2], world_pos[2])
               + FxMul(world_pos[3], world_pos[3]))
      radial_gradient == Unit - Min(FxDiv(distance_from_center, r), Unit)
  IN Only({LET
      temp_hot == <<Unit, Fx(95, 100), Fx(8, 10)>>
      temp_medium == <<Unit, Fx(7, 10), Fx(2, 10)>>
      temp_warm == <<Unit, Fx(5, 10), Fx(1, 10)>>
      temp_cool == <<Fx(9, 10), Fx(3, 10), Fx(5, 100)>>
      temp_sunspot == <<Fx(4, 10), Fx(15, 100), Fx(5, 100)>>
      base_color ==
        IF temperature > Fx(8, 10)
        THEN V3Lerp(temp_medium, temp_hot, FxDiv(temperature - Fx(8, 10), Fx(2, 10)))
        ELSE IF temperature > Fx(6, 10)
        THEN V3Lerp(temp_warm, temp_medium, FxDiv(temperature - Fx(6, 10), Fx(2, 10)))
        ELSE IF temperature > Fx(4, 10)
        THEN V3Lerp(temp_cool, temp_warm, FxDiv(temperature - Fx(4, 10), Fx(2, 10)))
        ELSE LET t == FxDiv(temperature, Fx(4, 10)) IN
             <<temp_sunspot[1] + FxMul(temp_cool[1] - temp_sunspot[1], t),
               temp_sunspot[2] + FxMul(temp_cool[2] - temp_sunspot[2], t),
               temp_sunspot[3] + FxMul(temp_sunspot[3] - temp_sunspot[3], t)>>
      \* layer 6: corona
      normal == <<FxDiv(world_pos[1], r), FxDiv(world_pos[2], r), FxDiv(world_pos[3], r)>>
      view_dot == Abs(normal[3])
      limb_darkening == FxPowf04(view_dot)
      corona_brightness == FxMul(Unit - limb_darkening, Fx(1, 2)) + Fx(1, 2)
      corona_variation ==
        FxMul(FxSin(FxMul(time, Fx(8, 10)) + FxMul(theta, Fx(4, 1))), Fx(2, 10)) + Fx(8, 10)
      corona_effect == FxMul(FxMul(corona_brightness, corona_variation), Fx(13, 10))
      \* layer 7: flares
      flare_pattern ==
        Abs(FxMul(FxSin(FxMul(theta, Fx(15, 1)) + FxMul(time, Fx(3, 1))),
                  FxCos(FxMul(phi, Fx(12, 1)) - FxMul(time, Fx(25, 10)))))
      flare_intensity ==
        IF flare_pattern > Fx(85, 100)
        THEN LET flare_strength == FxDiv(flare_pattern - Fx(85, 100), Fx(15, 100))
                 flare_pulse == FxMul(FxSin(FxMul(time, Fx(5, 1))), Fx(1, 2)) + Fx(1, 2)
             IN Unit + FxMul(FxMul(flare_strength, flare_pulse), Fx(2, 1))
        ELSE Unit
      combined_color ==
        <<FxMul(FxMul(FxMul(FxMul(base_color[1], emission_intensity), is_sunspot),
                      corona_effect), flare_intensity),
          FxMul(FxMul(FxMul(FxMul(base_color[2], emission_intensity), is_sunspot),
                      corona_effect), flare_intensity),
          FxMul(FxMul(FxMul(FxMul(base_color[3], emission_intensity), is_sunspot),
                      corona_effect), flare_intensity)>>
  IN [divisor |-> r,
      distance_from_center |-> distance_from_center,
      radial_gradient |-> radial_gradient,
      temperature |-> temperature,
      combined_color |-> combined_color,
      color |-> SunFinalColor(combined_color)] :
    temperature \in {FxMul(radial_gradient, Fx(4, 10)) + FxMul(perlin_turbulence, Fx(3, 10))
                     + FxMul(simplex_plasma, Fx(2, 10)) + FxMul(cellular_pattern, Fx(1, 10))}}) :
    perlin_turbulence \in {FxMul(perlin_octave1, Fx(5, 10)) + FxMul(perlin_octave2, Fx(3, 10))
                           + FxMul(perlin_octave3, Fx(2, 10))}})

\* final_color of shader_rocky_planet: the eroded terrain color times the
\* day/night factor times the terminator factor
RockyLitColor(eroded_color, day_night, terminator) ==
  <<FxMul(FxMul(eroded_color[1], day_night), terminator),
    FxMul(FxMul(eroded_color[2], day_night), terminator),
    FxMul(FxMul(eroded_color[3], day_night), terminator)>>

\* shader_rocky_planet, with the values it passes through
RockyShade(fragment, time) ==
  LET world_pos == fragment.world_position
      base_color == fragment.color
      sc == spherical_coords(world_pos)
      r == sc[1]
      theta == sc[2]
      noise1 == fractal_noise(world_pos, FxMul(time, Fx(1, 10)), 4)
      noise2 == fractal_noise(<<FxMul(world_pos[1], Fx(1, 2)), FxMul(world_pos[2], Fx(2, 1)),
                                FxMul(world_pos[3], Fx(1, 2))>>, FxMul(time, Fx(5, 100)), 3)
      terrain_noise == FxMul(noise1, Fx(7, 10)) + FxMul(noise2, Fx(3, 10))
      altitude_gradient == FxMul(FxSin(FxMul(theta, Fx(2, 1))), Fx(1, 2)) + Fx(1, 2)
      altitude_variation == FxMul(terrain_noise, Fx(3, 10)) + FxMul(altitude_gradient, Fx(7, 10))
      sun_dir_raw == <<Unit, Fx(1, 2), Fx(3, 10)>>
      sun_dir_len == Max(FxSqrt(FxMul(sun_dir_raw[1], sun_dir_raw[1])
                                + FxMul(sun_dir_raw[2], sun_dir_raw[2])
                                + FxMul(sun_dir_raw[3], sun_dir_raw[3])), Eps)
      sun_direction == <<FxDiv(sun_dir_raw[1], sun_dir_len), FxDiv(sun_dir_raw[2], sun_dir_len),
                         FxDiv(sun_dir_raw[3], sun_dir_len)>>
      normal == <<FxDiv(world_pos[1], r), FxDiv(world_pos[2], r), FxDiv(world_pos[3], r)>>
      sun_dot == Max(FxMul(normal[1], sun_direction[1]) + FxMul(normal[2], sun_direction[2])
                     + FxMul(normal[3], sun_direction[3]), 0)
      terminator == Max(0, Min(FxMul(sun_dot, Fx(3, 1)) - Fx(15, 10), Unit))
      day_night == FxMul(sun_dot, Fx(7, 10)) + Fx(3, 10)
      erosion == fractal_noise(V3Scaled(world_pos, Fx(3, 1)), FxMul(time, Fx(2, 100)), 2)
      rock_color1 == <<Fx(4, 10), Fx(3, 10), Fx(2, 10)>>
      rock_color2 == <<Fx(5, 10), Fx(4, 10), Fx(3, 10)>>
      rock_color3 == <<Fx(6, 10), Fx(5, 10), Fx(4, 10)>>
      rock_color4 == <<Fx(35, 100), Fx(35, 100), Fx(3, 10)>>
      rock_color5 == <<Fx(7, 10), Fx(6, 10), Fx(5, 10)>>
      color_mix == FxMul(altitude_variation, Fx(6, 10)) + FxMul(terrain_noise, Fx(4, 10))
      planet_color ==
        IF color_mix < Fx(25, 100)
        THEN V3Lerp(rock_color1, rock_color2, FxDiv(color_mix, Fx(25, 100)))
        ELSE IF color_mix < Fx(5, 10)
        THEN V3Lerp(rock_color2, rock_color3, FxDiv(color_mix - Fx(25, 100), Fx(25, 100)))
        ELSE IF color_mix < Fx(75, 100)
        THEN V3Lerp(rock_color3, rock_color4, FxDiv(color_mix - Fx(5, 10), Fx(25, 100)))
        ELSE V3Lerp(rock_color4, rock_color5, FxDiv(color_mix - Fx(75, 100), Fx(25, 100)))
      eroded_color == V3Scaled(planet_color, Unit - FxMul(erosion, Fx(2, 10)))
      final_color == RockyLitColor(eroded_color, day_night, terminator)
  IN [divisor |-> r,
      sun_dot |-> sun_dot,
      day_night |-> day_night,
      terminator |-> terminator,
      eroded_color |-> eroded_color,
      final_color |-> final_color,
      color |-> <<Min(FxMul(final_color[1], Fx(8, 10)) + FxMul(base_color[1], Fx(2, 10)), Unit),
                  Min(FxMul(final_color[2], Fx(8, 10)) + FxMul(base_color[2], Fx(2, 10)), Unit),
                  Min(FxMul(final_color[3], Fx(8, 10)) + FxMul(base_color[3], Fx(2, 10)), Unit)>>]

\* the normal of shader_scifi_planet and of shader_ice_planet: the world
\* position divided by the radius spherical_coords returns
ScifiNormal(fragment) ==
  LET world_pos == fragment.world_position
      r == spherical_coords(world_pos)[1]
  IN [divisor |-> r,
      normal |-> <<FxDiv(world_pos[1], r), FxDiv(world_pos[2], r), FxDiv(world_pos[3], r)>>]

IceNormal(fragment) ==
  LET world_pos == fragment.world_position
      r == spherical_coords(world_pos)[1]
  IN [divisor |-> r,
      normal |-> <<FxDiv(world_pos[1], r), FxDiv(world_pos[2], r), FxDiv(world_pos[3], r)>>]

----------------------------------------------------------------------------
(* Specification of the shader arithmetic: inputs from bounded sets *)

ShCoords == {-Unit, 0, Unit}

\* world positions on and around the unit sphere, the origin among them
ShWorldPositions == {<<x, y, z>> : x \in ShCoords, y \in ShCoords, z \in ShCoords}

ShFragments ==
  [position : {<<0, 0>>},
   color : {<<Unit, Unit, Unit>>, <<Fx(1, 2), Fx(1, 4), 0>>},
   depth : {Fx(1, 2)},
   world_position : ShWorldPositions]

ShTimes == {0, Fx(5, 2)}

ShInit ==
  /\ FbConstructed
  /\ fn = "none"
  /\ arg \in [fragment : ShFragments, time : ShTimes]
  /\ res = <<>>
  /\ DrawIdle
  /\ MainIdle

ShSphericalCoords ==
  /\ fn = "none"
  /\ fn' = "spherical_coords"
  /\ res' = spherical_coords(arg.fragment.world_position)
  /\ UNCHANGED <<arg, fbvars, histvars, drawvars, mainvars>>

ShVertexShaderSun ==
  /\ fn = "none"
  /\ fn' = "vertex_shader_sun"
  /\ res' = SunFinalPosition(arg.fragment.world_position, arg.time)
  /\ UNCHANGED <<arg, fbvars, histvars, drawvars, mainvars>>

ShShaderSun ==
  /\ fn = "none"
  /\ fn' = "shader_sun"
  /\ res' = SunShade(arg.fragment, arg.time)
  /\ UNCHANGED <<arg, fbvars, histvars, drawvars, mainvars>>

ShShaderRocky ==
  /\ fn = "none"
  /\ fn' = "shader_rocky_planet"
  /\ res' = RockyShade(arg.fragment, arg.time)
  /\ UNCHANGED <<arg, fbvars, histvars, drawvars, mainvars>>

ShShaderScifi ==
  /\ fn = "none"
  /\ fn' = "shader_scifi_planet"
  /\ res' = ScifiNormal(arg.fragment)
  /\ UNCHANGED <<arg, fbvars, histvars, drawvars, mainvars>>

ShShaderIce ==
  /\ fn = "none"
  /\ fn' = "shader_ice_planet"
  /\ res' = IceNormal(arg.fragment)
  /\ UNCHANGED <<arg, fbvars, histvars, drawvars, mainvars>>

ShNext ==
  \/ ShSphericalCoords
  \/ ShVertexShaderSun
  \/ ShShaderSun
  \/ ShShaderRocky
  \/ ShShaderScifi
  \/ ShShaderIce

ShSpec == ShInit /\ [][ShNext]_vars

\* C17 as stated: for every fragment and time, each of the three channels of the
\* color shader_sun returns lies in [min_intensity, 3.0].
C17_ChannelsAtLeastMinIntensity ==
  fn = "shader_sun" =>
    \A i \in 1..3 : res.color[i] >= min_intensity /\ res.color[i] <= Fx(3, 1)

\* C17 (amended): every channel of the color shader_sun returns is at most 3.0;
\* the red channel is at least 1.5 * min_intensity, the green channel at least
\* 1.5 * (min_intensity * 0.5) and the blue channel at least
\* 1.5 * (min_intensity * 0.2).
C17_ChannelFloorsAndCap ==
  fn = "shader_sun" =>
    /\ \A i \in 1..3 : res.color[i] <= Fx(3, 1)
    /\ res.color[1] >= FxMul(min_intensity, Fx(15, 10))
    /\ res.color[2] >= FxMul(FxMul(min_intensity, Fx(1, 2)), Fx(15, 10))
    /\ res.color[3] >= FxMul(FxMul(min_intensity, Fx(2, 10)), Fx(15, 10))

\* shader_sun has returned a color whose green and blue channels are below
\* min_intensity, from a combined color below the floors
C17_Witness ==
  /\ fn = "shader_sun"
  /\ arg.fragment.world_position = <<Unit, 0, 0>>
  /\ arg.time = 0
  /\ res.combined_color[2] < FxMul(min_intensity, Fx(1, 2))
  /\ res.color[2] < min_intensity
  /\ res.color[3] < min_intensity
  /\ res.color[1] >= min_intensity

\* C18 as stated: in shader_rocky_planet the lit terrain color, before the 80/20
\* mix with fragment.color, is strictly positive in every channel for every
\* world position, those with sun_dot = 0 included: the dark side is dimmed
\* but not black.
C18_LitTerrainNeverZero ==
  fn = "shader_rocky_planet" =>
    /\ res.day_night > 0
    /\ \A i \in 1..3 : res.final_color[i] > 0


\* C19: normalizing a zero-length vector never divides by zero: at the origin
\* spherical_coords returns radius 0.0001, latitude 0 and longitude 0;
\* vertex_shader_sun divides by a length floored at 0.0001, so at the origin the
\* displacement direction is the zero vector; every shader that divides
\* world_position by the radius divides by a value >= 0.0001.
C19_ZeroLengthGuards ==
  LET origin == <<0, 0, 0>> IN
  /\ fn = "spherical_coords" =>
       /\ res[1] >= Eps
       /\ arg.fragment.world_position = origin => res = <<Eps, 0, 0>>
  /\ fn = "vertex_shader_sun" =>
       /\ res.length >= Eps
       /\ arg.fragment.world_position = origin =>
            res.length = Eps /\ res.normal_dir = origin
  /\ fn \in {"shader_sun", "shader_rocky_planet", "shader_scifi_planet", "shader_ice_planet"} =>
       res.divisor >= Eps

\* a shader has divided the world position of the origin by the floored radius
\* and obtained the zero vector
C19_Witness ==
  /\ fn = "shader_scifi_planet"
  /\ arg.fragment.world_position = <<0, 0, 0>>
  /\ res.divisor = Eps
  /\ res.normal = <<0, 0, 0>>


----------------------------------------------------------------------------
(* Draw calls (main.rs): render and render_sun, stage by stage *)

MAX_VERTICES == 100000

\* the `as i32` cast of an f32
ToI32(a) == FDiv(a, Unit)

\* mutant: render works on the whole vertex array
EffectiveArrayUncapped(vertex_array) == vertex_array

\* the slice of the vertex array render works on
EffectiveArray(vertex_array) ==
  IF Len(vertex_array) > MAX_VERTICES
  THEN SubSeq(vertex_array, 1, MAX_VERTICES)
  ELSE vertex_array

\* the vertices a draw call feeds to its vertex shader
DrawInput(call) ==
  IF call.kind = "render" THEN EffectiveArray(call.vertex_array) ELSE call.vertex_array

\* Vertex Shader Stage
VertexShaderStage(call) ==
  LET input == DrawInput(call) IN
  [i \in 1..Len(input) |->
     IF call.kind = "render" THEN vertex_shader(input[i], call.uniforms)
     ELSE vertex_shader_sun(input[i], call.uniforms)]

\* the indices i = 0, 3, 6, ... below len
StepBy3(len) == [k \in 1..((len + 2) \div 3) |-> 3 * (k - 1)]

\* mutant: a triangle needs a vertex after its third one
PrimitiveAssemblyNeedsFourth(tv) ==
  LET starts == SelectSeq(StepBy3(Len(tv)), LAMBDA i : i + 3 < Len(tv)) IN
  [k \in 1..Len(starts) |-> <<tv[starts[k] + 1], tv[starts[k] + 2], tv[starts[k] + 3]>>]

\* Primitive Assembly Stage
PrimitiveAssembly(tv) ==
  Only({[k \in 1..Len(starts) |-> <<tv[starts[k] + 1], tv[starts[k] + 2], tv[starts[k] + 3]>>] :
          starts \in {Only({SelectSeq(StepBy3(len), LAMBDA i : i + 2 < len) : len \in {Len(tv)}})}})

\* the fragments of the triangles from..Len(tris), each with its triangle's index
RECURSIVE RasterizeFrom(_, _, _)
RasterizeFrom(tris, light, from) ==
  IF from > Len(tris) THEN <<>>
  ELSE Only({[k \in 1..Len(frags) |-> [tri |-> from, fragment |-> frags[k]]] :
                frags \in {triangle(tris[from][1], tris[from][2], tris[from][3], light)}})
         \o RasterizeFrom(tris, light, from + 1)

\* mutant: the triangles are rasterized last to first
RECURSIVE RasterizeBackFrom(_, _, _)
RasterizeBackFrom(tris, light, from) ==
  IF from < 1 THEN <<>>
  ELSE Only({[k \in 1..Len(frags) |-> [tri |-> from, fragment |-> frags[k]]] :
                frags \in {triangle(tris[from][1], tris[from][2], tris[from][3], light)}})
         \o RasterizeBackFrom(tris, light, from - 1)

RasterizationReversed(tris, light) == RasterizeBackFrom(tris, light, Len(tris))

\* Rasterization Stage
Rasterization(tris, light) == RasterizeFrom(tris, light, 1)

\* the surface type a draw call shades with
DrawPlanetType(call) == IF call.kind = "render" THEN call.planet_type ELSE "Sun"

\* the point() call the fragment stage makes for one fragment
FragmentCall(call, fragment) ==
  [x |-> ToI32(fragment.position[1]),
   y |-> ToI32(fragment.position[2]),
   color |-> fragment_shader_planet(fragment, call.uniforms, DrawPlanetType(call)),
   depth |-> fragment.depth]

\* mutant: render has no early return
EarlyReturnNever(call) == FALSE

\* render returns at once for an empty vertex array
EarlyReturn(call) == call.kind = "render" /\ Len(call.vertex_array) = 0

----------------------------------------------------------------------------
(* Specification of one draw call: its stages as steps, inputs from bounded sets *)

MaxVerts == 7       \* longest vertex array handed to a draw call

\* model-space corners of the three triangles the vertex arrays are cut from
MeshCorners ==
  <<<<-Unit, -Unit, 0>>, <<Unit, -Unit, 0>>, <<-Unit, Unit, 0>>,
    <<Unit, -Unit, 0>>, <<Unit, Unit, 0>>, <<-Unit, Unit, 0>>,
    <<-Unit, -Unit, -Unit>>, <<Unit, -Unit, -Unit>>, <<Unit, Unit, -Unit>>>>

MeshVertex(i) ==
  [NewVertex(MeshCorners[((i - 1) % 9) + 1], <<0, 0, Unit>>, <<0, 0>>)
     EXCEPT !.color = <<Unit, Fx(1, 2) + (i % 2) * Fx(1, 4), Fx(1, 4)>>]

VertexArray(n) == [i \in 1..n |-> MeshVertex(i)]

DrawUniforms ==
  [model_matrix : {Identity4, Translation(Fx(1, 2), 0, -Unit),
                   Translation(-2 * Unit, 2 * Unit, 0), Translation(2 * Unit, -2 * Unit, 0)},
   view_matrix : {Translation(0, 0, -2 * Unit)},
   projection_matrix : {PerspectiveLike},
   viewport_matrix : {create_viewport_matrix(0, 0, FbWidth * Unit, FbHeight * Unit)},
   time : {0, Fx(5, 2)}]

DrawCalls ==
  [kind : {"render"}, vertex_array : {VertexArray(n) : n \in 0..MaxVerts},
   uniforms : DrawUniforms, light : {MainLight}, planet_type : {"Rocky", "Ship"}]
  \cup
  [kind : {"render_sun"}, vertex_array : {VertexArray(n) : n \in 0..MaxVerts},
   uniforms : DrawUniforms, light : {MainLight}, planet_type : {"Sun"}]

DrawInit ==
  /\ FbConstructed
  /\ fn = "none"
  /\ arg \in DrawCalls
  /\ res = <<>>
  /\ stage = "call"
  /\ transformed_vertices = <<>>
  /\ triangles = <<>>
  /\ fragments = <<>>
  /\ fragTri = <<>>
  /\ written = 0
  /\ stagelog = <<>>
  /\ MainIdle

DrawEarlyReturn ==
  /\ stage = "call"
  /\ EarlyReturn(arg)
  /\ stage' = "returned"
  /\ UNCHANGED <<transformed_vertices, triangles, fragments, fragTri, written, stagelog>>
  /\ UNCHANGED <<fbvars, histvars, purevars, mainvars>>

DrawVertexStage ==
  /\ stage = "call"
  /\ ~EarlyReturn(arg)
  /\ transformed_vertices' = VertexShaderStage(arg)
  /\ stage' = "assembly"
  /\ stagelog' = Append(stagelog, "vertex")
  /\ UNCHANGED <<triangles, fragments, fragTri, written>>
  /\ UNCHANGED <<fbvars, histvars, purevars, mainvars>>

DrawAssemblyStage ==
  /\ stage = "assembly"
  /\ triangles' = PrimitiveAssembly(transformed_vertices)
  /\ stage' = "raster"
  /\ stagelog' = Append(stagelog, "assembly")
  /\ UNCHANGED <<transformed_vertices, fragments, fragTri, written>>
  /\ UNCHANGED <<fbvars, histvars, purevars, mainvars>>

DrawRasterStage ==
  /\ stage = "raster"
  /\ LET out == Rasterization(triangles, arg.light) IN
     /\ fragments' = [k \in 1..Len(out) |-> out[k].fragment]
     /\ fragTri' = [k \in 1..Len(out) |-> out[k].tri]
  /\ stage' = "fragment"
  /\ stagelog' = Append(stagelog, "raster")
  /\ UNCHANGED <<transformed_vertices, triangles, written>>
  /\ UNCHANGED <<fbvars, histvars, purevars, mainvars>>

DrawFragmentStep ==
  /\ stage = "fragment"
  /\ written < Len(fragments)
  /\ LET c == FragmentCall(arg, fragments[written + 1]) IN
     /\ SetFb(FbPoint(Fb, c.x, c.y, c.color, c.depth))
     /\ HistPoint(c.x, c.y, c.color, c.depth)
  /\ written' = written + 1
  /\ stagelog' = Append(stagelog, "fragment")
  /\ UNCHANGED <<stage, transformed_vertices, triangles, fragments, fragTri>>
  /\ UNCHANGED <<purevars, mainvars>>

DrawReturn ==
  /\ stage = "fragment"
  /\ written = Len(fragments)
  /\ stage' = "returned"
  /\ UNCHANGED <<transformed_vertices, triangles, fragments, fragTri, written, stagelog>>
  /\ UNCHANGED <<fbvars, histvars, purevars, mainvars>>

DrawNext ==
  \/ DrawEarlyReturn
  \/ DrawVertexStage
  \/ DrawAssemblyStage
  \/ DrawRasterStage
  \/ DrawFragmentStep
  \/ DrawReturn

DrawSpec == DrawInit /\ [][DrawNext]_vars

PastAssembly == stage \in {"raster", "fragment", "returned"} /\ stagelog # <<>>

\* the vertex shader of the draw call applied to vertex i of its array
ShadedVertex(i) ==
  IF arg.kind = "render" THEN vertex_shader(arg.vertex_array[i], arg.uniforms)
  ELSE vertex_shader_sun(arg.vertex_array[i], arg.uniforms)

\* C6: render and render_sun assemble a vertex list of length n into exactly
\* floor(n / 3) triangles, triangle k being the vertices 3k, 3k+1, 3k+2 in that
\* order; 1 or 2 trailing vertices join no triangle and the call goes on to
\* the later stages.
C6_TriangleAssembly ==
  PastAssembly =>
    LET n == Len(arg.vertex_array) IN
    /\ Len(transformed_vertices) = n
    /\ Len(triangles) = n \div 3
    /\ \A k \in 0..((n \div 3) - 1) :
         triangles[k + 1] = <<transformed_vertices[3 * k + 1],
                              transformed_vertices[3 * k + 2],
                              transformed_vertices[3 * k + 3]>>

\* C6 witness: render_sun returned after assembling 5 vertices into 1 triangle
C6_Witness ==
  /\ stage = "returned"
  /\ arg.kind = "render_sun"
  /\ Len(arg.vertex_array) = 5
  /\ Len(triangles) = 1

StageOrder == <<"vertex", "assembly", "raster">>

\* the fragments that came from triangle k, in the order they are kept
FragmentsOf(k) ==
  LET idx == SelectSeq([i \in 1..Len(fragments) |-> i], LAMBDA i : fragTri[i] = k) IN
  [j \in 1..Len(idx) |-> fragments[idx[j]]]

\* C7: a draw call runs vertex stage, assembly, rasterization, then the fragment
\* stage with its frame-buffer writes; every fragment comes from a triangle
\* whose three vertices went through the vertex stage, and the writes follow
\* the triangle order and, within a triangle, the rasterizer's order.
C7_StageOrder ==
  /\ \A i \in 1..Len(stagelog) :
       stagelog[i] = IF i <= 3 THEN StageOrder[i] ELSE "fragment"
  /\ Len(calls) = written
  /\ written > 0 => Len(stagelog) = 3 + written
  /\ \A i \in 1..Len(calls) :
       /\ calls[i].x = FDiv(fragments[i].position[1], Unit)
       /\ calls[i].y = FDiv(fragments[i].position[2], Unit)
       /\ calls[i].depth = fragments[i].depth
  /\ \A i \in 1..Len(fragments) :
       /\ fragTri[i] \in 1..Len(triangles)
       /\ i > 1 => fragTri[i - 1] <= fragTri[i]
       /\ \A j \in 1..3 :
            triangles[fragTri[i]][j] = ShadedVertex(3 * (fragTri[i] - 1) + j)
  /\ stage \in {"fragment", "returned"} =>
       \A k \in 1..Len(triangles) :
         FragmentsOf(k) = triangle(triangles[k][1], triangles[k][2], triangles[k][3], arg.light)

\* C7 witness: a draw call returned after writing the fragments of two
\* triangles, several of them from the first
C7_Witness ==
  /\ stage = "returned"
  /\ written = Len(fragments)
  /\ written >= 4
  /\ fragTri[1] = 1 /\ fragTri[2] = 1
  /\ fragTri[written] = 2

----------------------------------------------------------------------------
(* Scene set-up of main (main.rs), matrices of matrix.rs *)

V3Sub(a, b) == <<a[1] - b[1], a[2] - b[2], a[3] - b[3]>>

V3Dot(a, b) == FxMul(a[1], b[1]) + FxMul(a[2], b[2]) + FxMul(a[3], b[3])

V3Cross(a, b) ==
  <<FxMul(a[2], b[3]) - FxMul(a[3], b[2]),
    FxMul(a[3], b[1]) - FxMul(a[1], b[3]),
    FxMul(a[1], b[2]) - FxMul(a[2], b[1])>>

V3Normalize(a) ==
  LET len == FxSqrt(V3Dot(a, a)) IN
  IF len = 0 THEN a ELSE <<FxDiv(a[1], len), FxDiv(a[2], len), FxDiv(a[3], len)>>

\* create_model_matrix(translation, scale, rotation): translation * rotation about Y * scale
\* (the loop only ever passes rotations about the Y axis for the bodies)
create_model_matrix(translation, scale, rotation) ==
  LET c == FxCos(rotation[2])
      s == FxSin(rotation[2])
  IN Mat(<<FxMul(c, scale), 0, FxMul(s, scale), translation[1]>>,
         <<0, scale, 0, translation[2]>>,
         <<-FxMul(s, scale), 0, FxMul(c, scale), translation[3]>>,
         <<0, 0, 0, Unit>>)

\* create_view_matrix(eye, target, up): the look-at matrix
create_view_matrix(eye, target, up) ==
  LET zaxis == V3Normalize(V3Sub(eye, target))
      xaxis == V3Normalize(V3Cross(up, zaxis))
      yaxis == V3Cross(zaxis, xaxis)
  IN Mat(<<xaxis[1], xaxis[2], xaxis[3], -V3Dot(xaxis, eye)>>,
         <<yaxis[1], yaxis[2], yaxis[3], -V3Dot(yaxis, eye)>>,
         <<zaxis[1], zaxis[2], zaxis[3], -V3Dot(zaxis, eye)>>,
         <<0, 0, 0, Unit>>)

\* create_projection_matrix(fov_y, aspect, near, far): clip.w = -view.z
create_projection_matrix(fov_y, aspect, near, far) ==
  LET f == FxDiv(FxCos(fov_y \div 2), Max(Eps, FxSin(fov_y \div 2))) IN
  Mat(<<FxDiv(f, aspect), 0, 0, 0>>,
      <<0, f, 0, 0>>,
      <<0, 0, FxDiv(far + near, near - far), FxDiv(FxMul(FxMul(2 * Unit, far), near), near - far)>>,
      <<0, 0, -Unit, 0>>)

MaxFrames == 2      \* iterations of the frame loop followed
NumStars == 2       \* stars of the skybox
MeshSize == 15      \* half-width of the stand-in meshes, in model-space lengths

window_width == FbWidth
window_height == FbHeight

\* the (x, y, brightness) entries of stars: in-bounds pixels, brightness 0.5 .. 0.99
stars ==
  [i \in 1..NumStars |->
     <<(7 * i) % window_width, (3 * i) % window_height, Fx(50 + ((13 * i) % 50), 100)>>]

camera_initial_position == <<0, 20 * Unit, 60 * Unit>>
camera_initial_target == <<0, 20 * Unit, 40 * Unit>>
camera_up == <<0, Unit, 0>>

\* Camera::new: yaw and pitch from the direction target -> eye
CameraNew(eye, target) ==
  LET direction == V3Sub(eye, target) IN
  [eye |-> eye, target |-> target,
   yaw |-> FxAtan2(direction[3], direction[1]),
   pitch |-> 0]

\* Ship::new
ShipNew == [position |-> <<0, 20 * Unit, 40 * Unit>>, rotation |-> <<0, 0, 0>>, scale |-> Fx(1, 2)]

fov_y == Pi \div 3
aspect == FxDiv(window_width * Unit, window_height * Unit)
near == Fx(1, 10)
far == 300 * Unit

\* a mesh of n vertices: the corners of VertexArray(n), MeshSize times as far out
Mesh(n) ==
  [i \in 1..n |->
     [MeshVertex(i) EXCEPT !.position = <<MeshSize * MeshVertex(i).position[1],
                                          MeshSize * MeshVertex(i).position[2],
                                          MeshSize * MeshVertex(i).position[3]>>]]

vertex_array == Mesh(6)
sun_vertex_array == Mesh(4)
rings_vertex_array == Mesh(3)
moon_vertex_array == Mesh(3)

\* the five planets as main creates them
planets ==
  <<[orbital_radius |-> 12 * Unit, orbital_angle |-> 0, orbital_speed |-> Fx(5, 10),
     rotation_speed |-> Fx(5, 100), scale |-> Fx(15, 10), planet_type |-> "Rocky"],
    [orbital_radius |-> 18 * Unit, orbital_angle |-> FDiv(Pi * 2, 5), orbital_speed |-> Fx(3, 10),
     rotation_speed |-> Fx(3, 100), scale |-> Fx(2, 1), planet_type |-> "GasGiant"],
    [orbital_radius |-> 24 * Unit, orbital_angle |-> FDiv(Pi * 4, 5), orbital_speed |-> Fx(2, 10),
     rotation_speed |-> Fx(2, 100), scale |-> Fx(18, 10), planet_type |-> "SciFi"],
    [orbital_radius |-> 30 * Unit, orbital_angle |-> FDiv(Pi * 6, 5), orbital_speed |-> Fx(15, 100),
     rotation_speed |-> Fx(4, 100), scale |-> Fx(16, 10), planet_type |-> "Ice"],
    [orbital_radius |-> 36 * Unit, orbital_angle |-> FDiv(Pi * 8, 5), orbital_speed |-> Fx(12, 100),
     rotation_speed |-> Fx(6, 100), scale |-> Fx(19, 10), planet_type |-> "Volcanic"]>>

----------------------------------------------------------------------------
(* WarpSystem (main.rs): the teleport animation of the ship and the camera *)

\* WarpSystem::new
WarpNew ==
  [is_warping |-> FALSE,
   warp_progress |-> 0,
   warp_duration |-> Unit,
   warp_start_time |-> 0,
   target_ship_position |-> <<0, 0, 0>>,
   start_ship_position |-> <<0, 0, 0>>,
   target_camera_position |-> <<0, 0, 0>>,
   start_camera_position |-> <<0, 0, 0>>]

\* WarpSystem::start_warp
start_warp(w, current_time, start_ship_pos, target_ship_pos, start_camera_pos, target_camera_pos) ==
  [w EXCEPT !.is_warping = TRUE,
            !.warp_progress = 0,
            !.warp_start_time = current_time,
            !.start_ship_position = start_ship_pos,
            !.target_ship_position = target_ship_pos,
            !.start_camera_position = start_camera_pos,
            !.target_camera_position = target_camera_pos]

\* mutant: a completed warp stays marked as warping
WarpUpdateKeepsWarping(w, current_time) ==
  IF ~w.is_warping THEN [warp |-> w, ret |-> FALSE]
  ELSE LET elapsed == current_time - w.warp_start_time
           progress == Min(FxDiv(elapsed, w.warp_duration), Unit)
       IN IF progress >= Unit
          THEN [warp |-> [w EXCEPT !.warp_progress = Unit], ret |-> TRUE]
          ELSE [warp |-> [w EXCEPT !.warp_progress = progress], ret |-> FALSE]

\* mutant: completion is tested with > in place of >=
WarpUpdateStrict(w, current_time) ==
  IF ~w.is_warping THEN [warp |-> w, ret |-> FALSE]
  ELSE LET elapsed == current_time - w.warp_start_time
           progress == Min(FxDiv(elapsed, w.warp_duration), Unit)
       IN IF progress > Unit
          THEN [warp |-> [w EXCEPT !.is_warping = FALSE, !.warp_progress = Unit], ret |-> TRUE]
          ELSE [warp |-> [w EXCEPT !.warp_progress = progress], ret |-> FALSE]

\* WarpSystem::update: the warp system after the call and the value returned
WarpUpdate(w, current_time) ==
  IF ~w.is_warping THEN [warp |-> w, ret |-> FALSE]
  ELSE LET elapsed == current_time - w.warp_start_time
           progress == Min(FxDiv(elapsed, w.warp_duration), Unit)
       IN IF progress >= Unit
          THEN [warp |-> [w EXCEPT !.is_warping = FALSE, !.warp_progress = Unit], ret |-> TRUE]
          ELSE [warp |-> [w EXCEPT !.warp_progress = progress], ret |-> FALSE]

\* the smoothstep interpolation between two positions at the progress of the warp
WarpInterpolate(w, start, target) ==
  LET t == w.warp_progress
      eased_t == FxMul(FxMul(t, t), Fx(3, 1) - FxMul(Fx(2, 1), t))
  IN <<start[1] + FxMul(target[1] - start[1], eased_t),
       start[2] + FxMul(target[2] - start[2], eased_t),
       start[3] + FxMul(target[3] - start[3], eased_t)>>

\* WarpSystem::get_current_ship_position
get_current_ship_position(w) ==
  IF ~w.is_warping THEN w.target_ship_position
  ELSE WarpInterpolate(w, w.start_ship_position, w.target_ship_position)

\* WarpSystem::get_current_camera_position
get_current_camera_position(w) ==
  IF ~w.is_warping THEN w.target_camera_position
  ELSE WarpInterpolate(w, w.start_camera_position, w.target_camera_position)

----------------------------------------------------------------------------
(* The frame loop of main (main.rs) *)

DeltaTimes == {Fx(1, 60), Fx(1, 2)}

\* mutant: the stars are written before the frame buffer is cleared
FrameStepsStarsFirst ==
  <<"head", "input", "orbits", "stars", "clear", "sun", "planets", "ship", "present">>

\* mutant: the frame is shown before the ship is drawn
FrameStepsPresentBeforeShip ==
  <<"head", "input", "orbits", "clear", "stars", "sun", "planets", "present", "ship">>

\* the statements of one loop iteration, in program order
FrameSteps ==
  <<"head", "input", "orbits", "clear", "stars", "sun", "planets", "ship", "present">>

At(s) == step \in 1..Len(FrameSteps) /\ FrameSteps[step] = s

Advance == step' = step + 1

\* the point() calls of one render / render_sun call, in the order they are made
RenderCalls(call) ==
  IF EarlyReturn(call) THEN <<>>
  ELSE Only({Only({Only({[k \in 1..Len(out) |-> FragmentCall(call, out[k].fragment)] :
                            out \in {Rasterization(tris, call.light)}}) :
                      tris \in {PrimitiveAssembly(tv)}}) :
                tv \in {VertexShaderStage(call)}})

\* the frame buffer after the point() calls cs[lo], ..., cs[hi], made in this order
RECURSIVE PointAll(_, _, _, _)
PointAll(fb, cs, lo, hi) ==
  IF lo > hi THEN fb
  ELSE IF lo = hi THEN FbPoint(fb, cs[lo].x, cs[lo].y, cs[lo].color, cs[lo].depth)
  ELSE Only({PointAll(f, cs, ((lo + hi) \div 2) + 1, hi) :
                f \in {PointAll(fb, cs, lo, (lo + hi) \div 2)}})

\* the point() calls cs are made on the frame buffer, in order
MakeCalls(cs) ==
  /\ SetFb(PointAll(Fb, cs, 1, Len(cs)))
  /\ calls' = calls \o cs
  /\ lastOp' = IF cs = <<>> THEN lastOp ELSE "point"
  /\ framePoints' = framePoints + Len(cs)
  /\ pointsBeforeClear' = pointsBeforeClear + (IF clears = 0 THEN Len(cs) ELSE 0)
  /\ pointsAfterPresent' = pointsAfterPresent + (IF presents > 0 THEN Len(cs) ELSE 0)
  /\ UNCHANGED <<cleared, clearBg, clears, presents>>

\* the uniforms of a draw call of the current frame
FrameUniforms(model_matrix) ==
  [model_matrix |-> model_matrix,
   view_matrix |-> create_view_matrix(camera.eye, camera.target, camera_up),
   projection_matrix |-> create_projection_matrix(fov_y, aspect, near, far),
   viewport_matrix |-> create_viewport_matrix(0, 0, window_width * Unit, window_height * Unit),
   time |-> elapsed_time]

RenderCall(model_matrix, va, planet_type) ==
  [kind |-> "render", vertex_array |-> va, uniforms |-> FrameUniforms(model_matrix),
   light |-> MainLight, planet_type |-> planet_type]

RenderSunCall(model_matrix, va) ==
  [kind |-> "render_sun", vertex_array |-> va, uniforms |-> FrameUniforms(model_matrix),
   light |-> MainLight, planet_type |-> "Sun"]

MainInit ==
  /\ color = FbSetBackgroundColor(FbNew, Black).color
  /\ depth = FbSetBackgroundColor(FbNew, Black).depth
  /\ background = FbSetBackgroundColor(FbNew, Black).background
  /\ HistInit
  /\ PureIdle
  /\ DrawIdle
  /\ step = 1
  /\ frames = 0
  /\ elapsed_time = 0
  /\ delta_time = 0
  /\ orbital_angle = [i \in 1..Len(planets) |-> planets[i].orbital_angle]
  /\ pidx = 0
  /\ ship_vertex_array \in {Mesh(0), Mesh(3)}
  /\ camera = CameraNew(camera_initial_position, camera_initial_target)
  /\ ship = ShipNew
  /\ clears = 0
  /\ framePoints = 0
  /\ pointsBeforeClear = 0
  /\ presents = 0
  /\ drawn = <<>>
  /\ pointsAfterPresent = 0
  /\ warp = WarpNew
  /\ whist = <<>>

\* while !window.window_should_close(): the window stays open, the frame time is read
MainLoopHead ==
  /\ At("head")
  /\ frames < MaxFrames
  /\ \E dt \in DeltaTimes :
       /\ delta_time' = dt
       /\ elapsed_time' = elapsed_time + dt
  /\ frames' = frames + 1
  /\ clears' = 0
  /\ framePoints' = 0
  /\ pointsBeforeClear' = 0
  /\ presents' = 0
  /\ drawn' = <<>>
  /\ pointsAfterPresent' = 0
  /\ Advance
  /\ UNCHANGED <<fbvars, histvars, purevars, drawvars, warp, whist>>
  /\ UNCHANGED <<orbital_angle, pidx, ship_vertex_array, camera, ship>>

\* the window is closed: the loop ends
MainClose ==
  /\ At("head")
  /\ step' = 0
  /\ UNCHANGED <<fbvars, histvars, purevars, drawvars, warp, whist>>
  /\ UNCHANGED <<frames, elapsed_time, delta_time, orbital_angle, pidx, ship_vertex_array,
                 camera, ship, clears, framePoints, pointsBeforeClear, presents,
                 drawn, pointsAfterPresent>>

Keys == {"none", "KEY_UP", "KEY_DOWN"}

camera_forward == <<FxMul(FxCos(camera.yaw), FxCos(camera.pitch)),
                    FxSin(camera.pitch),
                    FxMul(FxSin(camera.yaw), FxCos(camera.pitch))>>

camera_up_dir == <<-FxMul(FxCos(camera.yaw), FxSin(camera.pitch)),
                   FxCos(camera.pitch),
                   -FxMul(FxSin(camera.yaw), FxSin(camera.pitch))>>

\* Camera::process_input for the keys that move the eye along forward
process_input(cam, key) ==
  LET pan_speed == Fx(15, 100)
      d == IF key = "KEY_UP" THEN pan_speed ELSE IF key = "KEY_DOWN" THEN -pan_speed ELSE 0
  IN [cam EXCEPT !.eye = <<cam.eye[1] + FxMul(camera_forward[1], d),
                           cam.eye[2] + FxMul(camera_forward[2], d),
                           cam.eye[3] + FxMul(camera_forward[3], d)>>]

\* the ship at its fixed offset from the camera eye
FollowPosition(eye) ==
  LET ship_offset_forward == 20 * Unit
      ship_offset_down == -2 * Unit
  IN <<eye[1] + FxMul(camera_forward[1], ship_offset_forward) + FxMul(camera_up_dir[1], ship_offset_down),
       eye[2] + FxMul(camera_forward[2], ship_offset_forward) + FxMul(camera_up_dir[2], ship_offset_down),
       eye[3] + FxMul(camera_forward[3], ship_offset_forward) + FxMul(camera_up_dir[3], ship_offset_down)>>

\* camera input, then the ship and the camera target follow the camera (no warp in progress)
MainInput ==
  /\ At("input")
  /\ \E key \in Keys :
       LET cam == process_input(camera, key)
           position == FollowPosition(cam.eye)
       IN /\ ship' = [ship EXCEPT !.position = position,
                                  !.rotation = <<cam.pitch, cam.yaw, 0>>]
          /\ camera' = [cam EXCEPT !.target = position]
  /\ Advance
  /\ UNCHANGED <<fbvars, histvars, purevars, drawvars, warp, whist>>
  /\ UNCHANGED <<frames, elapsed_time, delta_time, orbital_angle, pidx, ship_vertex_array,
                 clears, framePoints, pointsBeforeClear, presents,
          drawn, pointsAfterPresent>>

\* the orbital update of one planet
OrbitalUpdate(angle, orbital_speed, dt) ==
  LET a == angle + FxMul(orbital_speed, dt) IN
  IF a >= 2 * Pi THEN a - 2 * Pi ELSE a

MainOrbits ==
  /\ At("orbits")
  /\ orbital_angle' = [i \in 1..Len(planets) |->
                         OrbitalUpdate(orbital_angle[i], planets[i].orbital_speed, delta_time)]
  /\ Advance
  /\ UNCHANGED <<fbvars, histvars, purevars, drawvars, warp, whist>>
  /\ UNCHANGED <<frames, elapsed_time, delta_time, pidx, ship_vertex_array, camera, ship,
                 clears, framePoints, pointsBeforeClear, presents,
          drawn, pointsAfterPresent>>

\* framebuffer.clear()
MainClear ==
  /\ At("clear")
  /\ SetFb(FbClear(Fb))
  /\ HistClear
  /\ clears' = clears + 1
  /\ Advance
  /\ UNCHANGED <<purevars, drawvars, warp, whist>>
  /\ UNCHANGED <<frames, elapsed_time, delta_time, orbital_angle, pidx, ship_vertex_array,
                 camera, ship, framePoints, pointsBeforeClear, presents,
                 drawn, pointsAfterPresent>>

\* the point() calls of the star loop
StarCalls ==
  [i \in 1..Len(stars) |->
     [x |-> stars[i][1], y |-> stars[i][2],
      color |-> <<stars[i][3], stars[i][3], stars[i][3]>>,
      depth |-> StarDepth * Unit]]

MainStars ==
  /\ At("stars")
  /\ \E cs \in {StarCalls} : MakeCalls(cs)
  /\ Advance
  /\ UNCHANGED <<purevars, drawvars, warp, whist>>
  /\ UNCHANGED <<frames, elapsed_time, delta_time, orbital_angle, pidx, ship_vertex_array,
                 camera, ship, drawn>>

SunCall ==
  RenderSunCall(create_model_matrix(<<0, 0, 0>>, Unit, <<0, FxMul(elapsed_time, Fx(1, 10)), 0>>),
                sun_vertex_array)

MainRenderSun ==
  /\ At("sun")
  /\ \E cs \in {RenderCalls(SunCall)} : MakeCalls(cs)
  /\ drawn' = Append(drawn, SunCall.planet_type)
  /\ Advance
  /\ UNCHANGED <<purevars, drawvars, warp, whist>>
  /\ UNCHANGED <<frames, elapsed_time, delta_time, orbital_angle, pidx, ship_vertex_array,
                 camera, ship>>

\* the draw calls of one iteration of the planet loop: the planet, the rings of
\* planet 1, the moon of planet 0
PlanetDrawCalls(idx) ==
  LET planet == planets[idx + 1]
      angle == orbital_angle[idx + 1]
      orbit_x == FxMul(planet.orbital_radius, FxCos(angle))
      orbit_z == FxMul(planet.orbital_radius, FxSin(angle))
      translation == <<orbit_x, 0, orbit_z>>
      rotation == <<0, FxMul(elapsed_time, planet.rotation_speed), 0>>
      moon_orbital_radius == Fx(25, 10)
      moon_orbital_angle == elapsed_time
      moon_translation == <<orbit_x + FxMul(moon_orbital_radius, FxCos(moon_orbital_angle)),
                            Fx(3, 10),
                            orbit_z + FxMul(moon_orbital_radius, FxSin(moon_orbital_angle))>>
      moon_rotation == <<0, FxMul(elapsed_time, Fx(1, 10)), 0>>
  IN <<RenderCall(create_model_matrix(translation, planet.scale, rotation),
                  vertex_array, planet.planet_type)>>
     \o (IF idx = 1
         THEN <<RenderCall(create_model_matrix(translation, Unit, rotation),
                           rings_vertex_array, "Ring")>>
         ELSE <<>>)
     \o (IF idx = 0
         THEN <<RenderCall(create_model_matrix(moon_translation, Unit, moon_rotation),
                           moon_vertex_array, "Moon")>>
         ELSE <<>>)

\* the planet types of a sequence of draw calls
DrawNames(draws) == [i \in 1..Len(draws) |-> draws[i].planet_type]

RECURSIVE CallsOfDraws(_, _)
CallsOfDraws(draws, i) ==
  IF i > Len(draws) THEN <<>> ELSE RenderCalls(draws[i]) \o CallsOfDraws(draws, i + 1)

\* one iteration of for (idx, planet) in planets.iter().enumerate()
MainRenderPlanet ==
  /\ At("planets")
  /\ pidx < Len(planets)
  /\ \E cs \in {CallsOfDraws(PlanetDrawCalls(pidx), 1)} : MakeCalls(cs)
  /\ drawn' = drawn \o DrawNames(PlanetDrawCalls(pidx))
  /\ IF pidx + 1 = Len(planets)
     THEN pidx' = 0 /\ Advance
     ELSE pidx' = pidx + 1 /\ UNCHANGED step
  /\ UNCHANGED <<purevars, drawvars, warp, whist>>
  /\ UNCHANGED <<frames, elapsed_time, delta_time, orbital_angle, ship_vertex_array, camera, ship>>

ShipCall ==
  RenderCall(create_model_matrix(ship.position, ship.scale, ship.rotation),
             ship_vertex_array, "Ship")

\* the ship is drawn when its model was loaded
MainRenderShip ==
  /\ At("ship")
  /\ \E cs \in {IF Len(ship_vertex_array) # 0 THEN RenderCalls(ShipCall) ELSE <<>>} : MakeCalls(cs)
  /\ drawn' = IF Len(ship_vertex_array) # 0 THEN Append(drawn, ShipCall.planet_type) ELSE drawn
  /\ Advance
  /\ UNCHANGED <<purevars, drawvars, warp, whist>>
  /\ UNCHANGED <<frames, elapsed_time, delta_time, orbital_angle, pidx, ship_vertex_array,
                 camera, ship>>

\* framebuffer.update_texture() and framebuffer.draw_to(): the frame is shown
MainPresent ==
  /\ At("present")
  /\ presents' = presents + 1
  /\ step' = 1
  /\ UNCHANGED <<fbvars, histvars, purevars, drawvars, warp, whist>>
  /\ UNCHANGED <<frames, elapsed_time, delta_time, orbital_angle, pidx, ship_vertex_array,
                 camera, ship, clears, framePoints, pointsBeforeClear,
                 drawn, pointsAfterPresent>>

Next ==
  \/ MainLoopHead
  \/ MainClose
  \/ MainInput
  \/ MainOrbits
  \/ MainClear
  \/ MainStars
  \/ MainRenderSun
  \/ MainRenderPlanet
  \/ MainRenderShip
  \/ MainPresent

Spec == MainInit /\ [][Next]_vars

----------------------------------------------------------------------------
(* Properties of the frame loop *)

\* C5: in every iteration of the frame loop clear() runs exactly once, and no
\* point() call of the iteration (star write or fragment write) precedes it.
C5_ClearOncePerFrame ==
  /\ clears <= 1
  /\ pointsBeforeClear = 0
  /\ framePoints > 0 => clears = 1
  /\ presents > 0 => clears = 1
  /\ (frames > 0 /\ step > 0 /\ FrameSteps[step] \in {"sun", "planets", "ship", "present"})
       => clears = 1

C5_Witness ==
  /\ frames = 2
  /\ presents = 1
  /\ clears = 1
  /\ framePoints > Len(stars)
  /\ Len(calls) = framePoints

\* the draw calls of one iteration, in the order main makes them: the sun, each
\* planet (the moon after planet 0, the rings after planet 1), the ship when its
\* model was loaded
FrameDraws ==
  <<"Sun", planets[1].planet_type, "Moon", planets[2].planet_type, "Ring">>
  \o [i \in 1..(Len(planets) - 2) |-> planets[i + 2].planet_type]
  \o (IF Len(ship_vertex_array) # 0 THEN <<"Ship">> ELSE <<>>)

\* C20: in every iteration of the frame loop the color plane is handed to the
\* display layer (update_texture, then draw_to) exactly once, only after every
\* draw call of the frame (sun, planets, rings, moon, ship) has made its
\* frame-buffer writes; no point() write of the frame follows its update_texture.
C20_PresentOnceAfterDraws ==
  /\ presents <= 1
  /\ pointsAfterPresent = 0
  /\ presents = 1 => drawn = FrameDraws /\ clears = 1
  /\ (frames > 0 /\ step \in {0, 1}) => presents = 1
  /\ (step > 1) => presents = 0

\* the second iteration has shown its frame, after the nine draw calls of a
\* frame with the ship
C20_Witness ==
  /\ frames = 2
  /\ step = 1
  /\ presents = 1
  /\ Len(drawn) = 9
  /\ drawn[9] = "Ship"
  /\ drawn[3] = "Moon"
  /\ framePoints = Len(calls)
  /\ framePoints > Len(stars)

----------------------------------------------------------------------------
(* Properties of the frame-buffer writes of a draw call *)

\* C13: a point() call with (x, y) outside the frame buffer changes no color and
\* no depth; the coordinates render passes are the fragment's position truncated
\* to integers, and such a write is dropped whenever they fall outside.
C13_OutOfBoundsDiscarded ==
  [][IsPointStep =>
       /\ stage = "fragment" =>
            /\ NewCall.x = ToI32(fragments[written + 1].position[1])
            /\ NewCall.y = ToI32(fragments[written + 1].position[2])
       /\ ~FbInBounds(NewCall.x, NewCall.y) =>
            /\ color' = color
            /\ depth' = depth
            /\ background' = background]_vars

\* the last point() call
LastCall == calls[Len(calls)]

\* C13 witness: render wrote fragments into the buffer and then made a point()
\* call left of the buffer, or above it, that was dropped
C13_Witness ==
  /\ stage = "fragment"
  /\ lastOp = "point"
  /\ Len(calls) > 0
  /\ (LastCall.x < 0 \/ LastCall.y < 0)
  /\ \E p \in Pixels : depth[p] # Inf

----------------------------------------------------------------------------
(* The input and warp part of the frame loop (main.rs), over several frames *)

MaxWarpFrames == 3  \* iterations of the frame loop followed in the warp specification

\* frame times: half a warp duration and a whole one
WarpDeltaTimes == {Fx(1, 2), Unit}

FKeys == <<"KEY_F1", "KEY_F2", "KEY_F3", "KEY_F4", "KEY_F5", "KEY_F6", "KEY_F7">>

\* the sets of warp keys found pressed in a frame: none, one, several at once
WarpPressed == {{}, {"KEY_F2"}, {"KEY_F3", "KEY_F7"}}

WarpCameraKeys == {"none", "KEY_UP"}

\* target_pos of a waypoint: the overview, the sun, or the place of a planet
WaypointTarget(waypoint_idx) ==
  IF waypoint_idx = 0 THEN <<0, 40 * Unit, 60 * Unit>>
  ELSE IF waypoint_idx = 1 THEN <<0, 8 * Unit, 12 * Unit>>
  ELSE IF waypoint_idx >= 2 /\ waypoint_idx <= 6
  THEN LET planet_idx == waypoint_idx - 2 IN
       IF planet_idx < Len(planets)
       THEN LET planet == planets[planet_idx + 1]
                orbit_x == FxMul(planet.orbital_radius, FxCos(orbital_angle[planet_idx + 1]))
                orbit_z == FxMul(planet.orbital_radius, FxSin(orbital_angle[planet_idx + 1]))
            IN <<orbit_x, 5 * Unit, orbit_z>>
       ELSE <<0, 25 * Unit, 50 * Unit>>
  ELSE <<0, 40 * Unit, 60 * Unit>>

\* target_camera_pos: behind the target of the ship, at the offset the ship keeps
\* from the camera
WarpTargetCamera(target_pos) ==
  LET ship_offset_forward == 20 * Unit
      ship_offset_down == -2 * Unit
  IN <<target_pos[1] - FxMul(camera_forward[1], ship_offset_forward)
         - FxMul(camera_up_dir[1], ship_offset_down),
       target_pos[2] - FxMul(camera_forward[2], ship_offset_forward)
         - FxMul(camera_up_dir[2], ship_offset_down),
       target_pos[3] - FxMul(camera_forward[3], ship_offset_forward)
         - FxMul(camera_up_dir[3], ship_offset_down)>>

\* for waypoint_idx in 0..7 from an index on: the first pressed key starts a warp
\* and ends the loop; the start_warp calls made are logged
RECURSIVE WarpKeyLoop(_, _, _, _)
WarpKeyLoop(w, cam, pressed, waypoint_idx) ==
  IF waypoint_idx > 6 THEN [warp |-> w, starts |-> <<>>]
  ELSE IF FKeys[waypoint_idx + 1] \in pressed
  THEN LET target_pos == WaypointTarget(waypoint_idx) IN
       [warp |-> start_warp(w, elapsed_time, ship.position, target_pos, cam.eye,
                            WarpTargetCamera(target_pos)),
        starts |-> <<[waypoint_idx |-> waypoint_idx, was_warping |-> w.is_warping]>>]
  ELSE WarpKeyLoop(w, cam, pressed, waypoint_idx + 1)

\* mutant: the warp keys are handled while a warp is in progress, too
WarpKeysUnguarded(w, cam, pressed) == WarpKeyLoop(w, cam, pressed, 0)

\* the handling of the warp keys F1-F7 of one frame
WarpKeys(w, cam, pressed) ==
  IF ~w.is_warping THEN WarpKeyLoop(w, cam, pressed, 0)
  ELSE [warp |-> w, starts |-> <<>>]

\* the history of a frame before its input is handled
WarpHistNew(completions) ==
  [handled |-> FALSE, at_head |-> FALSE, key |-> "none", pressed |-> {},
   camera_input |-> FALSE, starts |-> <<>>, pre |-> WarpNew, ret |-> FALSE,
   completions |-> completions]

WarpInit ==
  /\ color = FbSetBackgroundColor(FbNew, Black).color
  /\ depth = FbSetBackgroundColor(FbNew, Black).depth
  /\ background = FbSetBackgroundColor(FbNew, Black).background
  /\ HistInit
  /\ PureIdle
  /\ DrawIdle
  /\ step = 1
  /\ frames = 0
  /\ elapsed_time = 0
  /\ delta_time = 0
  /\ orbital_angle = [i \in 1..Len(planets) |-> planets[i].orbital_angle]
  /\ pidx = 0
  /\ ship_vertex_array = Mesh(0)
  /\ camera = CameraNew(camera_initial_position, camera_initial_target)
  /\ ship = ShipNew
  /\ clears = 0
  /\ framePoints = 0
  /\ pointsBeforeClear = 0
  /\ presents = 0
  /\ drawn = <<>>
  /\ pointsAfterPresent = 0
  /\ warp = WarpNew
  /\ whist = WarpHistNew(0)

\* while !window.window_should_close(): the window stays open, the frame time is read
WarpLoopHead ==
  /\ At("head")
  /\ frames < MaxWarpFrames
  /\ \E dt \in WarpDeltaTimes :
       /\ delta_time' = dt
       /\ elapsed_time' = elapsed_time + dt
  /\ frames' = frames + 1
  /\ whist' = WarpHistNew(whist.completions)
  /\ Advance
  /\ UNCHANGED <<fbvars, histvars, purevars, drawvars, warp>>
  /\ UNCHANGED <<orbital_angle, pidx, ship_vertex_array, camera, ship, clears, framePoints,
                 pointsBeforeClear, presents, drawn, pointsAfterPresent>>

\* camera input unless a warp is in progress, the warp keys, warp_system.update,
\* then the ship and the camera are moved by the warp or the ship follows the camera
WarpInput ==
  /\ At("input")
  /\ \E key \in WarpCameraKeys, pressed \in WarpPressed :
       LET cam == IF ~warp.is_warping THEN process_input(camera, key) ELSE camera
           keys == WarpKeys(warp, cam, pressed)
           upd == WarpUpdate(keys.warp, elapsed_time)
           position == IF upd.warp.is_warping
                       THEN get_current_ship_position(upd.warp)
                       ELSE FollowPosition(cam.eye)
           eye == IF upd.warp.is_warping
                  THEN get_current_camera_position(upd.warp)
                  ELSE cam.eye
       IN /\ warp' = upd.warp
          /\ ship' = [ship EXCEPT !.position = position,
                                  !.rotation = <<cam.pitch, cam.yaw, 0>>]
          /\ camera' = [cam EXCEPT !.eye = eye, !.target = position]
          /\ whist' = [handled |-> TRUE,
                       at_head |-> warp.is_warping,
                       key |-> key,
                       pressed |-> pressed,
                       camera_input |-> ~warp.is_warping,
                       starts |-> keys.starts,
                       pre |-> keys.warp,
                       ret |-> upd.ret,
                       completions |-> IF keys.starts # <<>> THEN 0
                                       ELSE whist.completions + (IF upd.ret THEN 1 ELSE 0)]
  /\ Advance
  /\ UNCHANGED <<fbvars, histvars, purevars, drawvars>>
  /\ UNCHANGED <<frames, elapsed_time, delta_time, orbital_angle, pidx, ship_vertex_array,
                 clears, framePoints, pointsBeforeClear, presents, drawn, pointsAfterPresent>>

\* the frame is drawn and shown; the frame buffer is not followed here
WarpFrameRest ==
  /\ At("clear")
  /\ step' = 1
  /\ UNCHANGED <<fbvars, histvars, purevars, drawvars, warp, whist>>
  /\ UNCHANGED <<frames, elapsed_time, delta_time, orbital_angle, pidx, ship_vertex_array,
                 camera, ship, clears, framePoints, pointsBeforeClear, presents, drawn,
                 pointsAfterPresent>>

WarpNext ==
  \/ WarpLoopHead
  \/ MainClose
  \/ WarpInput
  \/ MainOrbits
  \/ WarpFrameRest

WarpSpec == WarpInit /\ [][WarpNext]_vars

\* the steps of a frame loop that keeps running
WarpRun == WarpLoopHead \/ WarpInput \/ MainOrbits \/ WarpFrameRest

\* the frame loop keeps running until the window is closed
WarpLiveSpec == WarpInit /\ [][WarpNext]_vars /\ WF_vars(WarpRun)

----------------------------------------------------------------------------
(* Properties of the warp *)

\* C21 as stated: after a warp completes (the WarpSystem.update call that
\* returns true), the main loop leaves the camera eye at the warp's
\* target_camera_position and the ship at the warp's target_ship_position.
C21_CompletedWarpAtTarget ==
  (whist.handled /\ whist.ret) =>
    /\ camera.eye = warp.target_camera_position
    /\ ship.position = warp.target_ship_position

\* C22: after a start_warp, the update calls that follow (current_time not
\* decreasing) return true exactly once, on the call that switches is_warping
\* from true to false, the first with current_time - warp_start_time >=
\* warp_duration; an update call made while is_warping is false returns false
\* and changes no field; warp_progress never exceeds 1.0 and is 1.0 after
\* completion.
C22_UpdateReturnsTrueOnce ==
  /\ warp.warp_progress <= Unit
  /\ whist.completions <= 1
  /\ whist.handled =>
       /\ whist.ret <=> (/\ whist.pre.is_warping
                         /\ elapsed_time - whist.pre.warp_start_time >= whist.pre.warp_duration)
       /\ whist.ret => ~warp.is_warping /\ warp.warp_progress = Unit
       /\ (whist.pre.is_warping /\ ~whist.ret) => warp.is_warping
       /\ ~whist.pre.is_warping => ~whist.ret /\ warp = whist.pre
  /\ (~warp.is_warping /\ warp # WarpNew) =>
       warp.warp_progress = Unit /\ whist.completions = 1

\* the update call of this frame has completed a warp that an earlier update
\* call had left half way
C22_Witness ==
  /\ whist.handled
  /\ whist.ret
  /\ whist.pre.is_warping
  /\ whist.pre.warp_progress = Fx(1, 2)
  /\ ~warp.is_warping
  /\ warp.warp_progress = Unit
  /\ whist.completions = 1

\* C23: while a warp is in progress (is_warping true at the start of a frame)
\* the main loop neither processes camera input nor starts another warp;
\* start_warp is only called when is_warping is false, and at most one warp is
\* started per frame even if several of the keys F1-F7 are pressed.
C23_NoInputDuringWarp ==
  whist.handled =>
    /\ whist.at_head =>
         /\ ~whist.camera_input
         /\ whist.starts = <<>>
         /\ whist.pre.warp_start_time < elapsed_time
    /\ \A i \in DOMAIN whist.starts : ~whist.starts[i].was_warping
    /\ Len(whist.starts) <= 1
    /\ Len(whist.starts) = 1 =>
         /\ whist.pre.warp_start_time = elapsed_time
         /\ FKeys[whist.starts[1].waypoint_idx + 1] \in whist.pressed
         /\ \A j \in 0..(whist.starts[1].waypoint_idx - 1) : FKeys[j + 1] \notin whist.pressed

\* a frame that began during a warp found a camera key and two warp keys
\* pressed, and started no warp
C23_Witness ==
  /\ whist.handled
  /\ whist.at_head
  /\ whist.key = "KEY_UP"
  /\ whist.pressed = {"KEY_F3", "KEY_F7"}
  /\ whist.starts = <<>>
  /\ ~whist.camera_input
  /\ warp.is_warping

\* C24: every started warp eventually completes: while the frame loop keeps
\* running and elapsed_time keeps increasing, is_warping, once true, becomes
\* false again, in the first frame whose elapsed_time is at least
\* warp_start_time + warp_duration, so camera input is not disabled forever.
\* The frames followed end at MaxWarpFrames: a warp is excused only when the
\* window is closed or the last frame followed ends before the warp is due.
C24_WarpEventuallyCompletes ==
  /\ warp.is_warping ~>
       \/ ~warp.is_warping
       \/ step = 0
       \/ /\ At("head")
          /\ frames = MaxWarpFrames
          /\ elapsed_time < warp.warp_start_time + warp.warp_duration
  /\ []((whist.handled /\ warp.is_warping) =>
          elapsed_time < warp.warp_start_time + warp.warp_duration)

\* a warp was started, ran and completed, and a later frame processed camera
\* input again
C24_Witness ==
  /\ frames = MaxWarpFrames
  /\ whist.handled
  /\ whist.camera_input
  /\ whist.key = "KEY_UP"
  /\ whist.starts = <<>>
  /\ whist.completions = 1
  /\ ~warp.is_warping
  /\ warp.warp_progress = Unit

----------------------------------------------------------------------------
(* Specification of primitive assembly on long vertex arrays: the array is
   given by its length, a vertex by its index *)

\* lengths around the stages' limits: a few triangles, and MAX_VERTICES
AsmLengths == (0..60) \cup ((MAX_VERTICES - 1)..(MAX_VERTICES + 3))

\* the vertex array of a length: vertex i is the index i, counted from 0
IndexArray(n) == SubSeq([i \in 1..n |-> i - 1], 1, n)

\* the triangles a draw call of a kind assembles from a vertex array: how many,
\* the first vertex of the first one and the last vertex of the last one
AssembledFrom(kind, va) ==
  Only({Only({[triangles |-> Len(tris),
               first |-> IF Len(tris) = 0 THEN -1 ELSE tris[1][1],
               last |-> IF Len(tris) = 0 THEN -1 ELSE tris[Len(tris)][3]] :
              tris \in {PrimitiveAssembly(tv)}}) :
        tv \in {DrawInput([kind |-> kind, vertex_array |-> va])}})

AsmInit ==
  /\ FbConstructed
  /\ fn = "none"
  /\ arg \in [n : AsmLengths]
  /\ res = <<>>
  /\ DrawIdle
  /\ MainIdle

AsmRender ==
  /\ fn = "none"
  /\ fn' = "render"
  /\ res' = Only({AssembledFrom("render", va) : va \in {IndexArray(arg.n)}})
  /\ UNCHANGED <<arg, fbvars, histvars, drawvars, mainvars>>

AsmRenderSun ==
  /\ fn = "none"
  /\ fn' = "render_sun"
  /\ res' = Only({AssembledFrom("render_sun", va) : va \in {IndexArray(arg.n)}})
  /\ UNCHANGED <<arg, fbvars, histvars, drawvars, mainvars>>

AsmNext == AsmRender \/ AsmRenderSun

AsmSpec == AsmInit /\ [][AsmNext]_vars

\* C25: render processes at most the first MAX_VERTICES = 100000 vertices of its
\* vertex array: from a longer array it assembles exactly 33333 triangles, of the
\* vertices 0..99998, and ignores vertex 99999 and all later ones; render_sun has
\* no cap and assembles floor(n / 3) triangles from any n vertices.
C25_RenderCapsVertices ==
  /\ MAX_VERTICES = 100000
  /\ fn = "render" =>
       /\ arg.n > MAX_VERTICES =>
            res.triangles = 33333 /\ res.first = 0 /\ res.last = 99998
       /\ arg.n <= MAX_VERTICES => res.triangles = arg.n \div 3
  /\ fn = "render_sun" =>
       /\ res.triangles = arg.n \div 3
       /\ arg.n >= 3 => res.first = 0 /\ res.last = 3 * (arg.n \div 3) - 1

\* render was given 100003 vertices, one triangle more than it assembles
C25_Witness ==
  /\ fn = "render"
  /\ arg.n = MAX_VERTICES + 3
  /\ res.triangles = 33333
  /\ res.last = 99998

----------------------------------------------------------------------------
(* Draw calls that assemble no triangle *)

\* C26: a draw call that yields no triangle leaves the frame buffer unchanged:
\* render with an empty vertex array returns before any stage runs, and render
\* or render_sun with 1 or 2 vertices makes no point() call, so the color and
\* the depth of every pixel are what they were before the call.
C26_NoTriangleNoWrite ==
  Len(arg.vertex_array) < 3 =>
    /\ triangles = <<>>
    /\ fragments = <<>>
    /\ written = 0
    /\ calls = <<>>
    /\ color = FbNew.color
    /\ depth = FbNew.depth
    /\ (arg.kind = "render" /\ Len(arg.vertex_array) = 0) =>
         stagelog = <<>> /\ stage \in {"call", "returned"}

\* render_sun went through all its stages with 2 vertices and returned
C26_Witness ==
  /\ stage = "returned"
  /\ arg.kind = "render_sun"
  /\ Len(arg.vertex_array) = 2
  /\ Len(transformed_vertices) = 2
  /\ stagelog = <<"vertex", "assembly", "raster">>
  /\ color = FbNew.color

----------------------------------------------------------------------------
(* Meshes (obj.rs): generated spheres and rings, and their index expansion *)

MaxSegments == 5    \* most segments a mesh is generated with

\* the vertex of row i, column j of a sphere
SphereVertex(radius, segments, i, j) ==
  LET theta == FDiv(Pi * i, segments)
      phi == FDiv(2 * Pi * j, segments)
      x == FxMul(FxMul(radius, FxSin(theta)), FxCos(phi))
      y == FxMul(radius, FxCos(theta))
      z == FxMul(FxMul(radius, FxSin(theta)), FxSin(phi))
  IN NewVertex(<<x, y, z>>,
               <<FxDiv(x, radius), FxDiv(y, radius), FxDiv(z, radius)>>,
               <<FDiv(j * Unit, segments), FDiv(i * Unit, segments)>>)

\* the vertex of ring i, column j of a flat disc
RingVertex(inner_radius, outer_radius, segments_radial, segments_angular, i, j) ==
  LET radius_t == FDiv(i * Unit, segments_radial)
      radius == inner_radius + FxMul(outer_radius - inner_radius, radius_t)
      angle == FDiv(2 * Pi * j, segments_angular)
  IN NewVertex(<<FxMul(radius, FxCos(angle)), 0, FxMul(radius, FxSin(angle))>>,
               <<0, Unit, 0>>,
               <<radius_t, FDiv(j * Unit, segments_angular)>>)

\* mutant: the lower row of a cell is taken two rows down
QuadIndicesRowSkipped(columns, i, j) ==
  LET first == i * (columns + 1) + j
      second == first + 1
      third == (i + 2) * (columns + 1) + j
      fourth == third + 1
  IN <<first, second, third, second, fourth, third>>

\* the six indices pushed for cell (i, j) of a grid with columns + 1 vertices a row
QuadIndices(columns, i, j) ==
  LET first == i * (columns + 1) + j
      second == first + 1
      third == (i + 1) * (columns + 1) + j
      fourth == third + 1
  IN <<first, second, third, second, fourth, third>>

\* the indices of cells 0..rows, 0..columns in loop order
GridIndices(rows, columns) ==
  [k \in 1..(6 * rows * columns) |->
     QuadIndices(columns, ((k - 1) \div 6) \div columns,
                 ((k - 1) \div 6) % columns)[((k - 1) % 6) + 1]]

\* Obj::generate_sphere: vertices of rows and columns 0..=segments in loop order
generate_sphere(radius, segments) ==
  [vertices |-> [k \in 1..((segments + 1) * (segments + 1)) |->
                   SphereVertex(radius, segments,
                                (k - 1) \div (segments + 1), (k - 1) % (segments + 1))],
   indices |-> GridIndices(segments, segments)]

\* Obj::generate_rings: vertices of rings 0..=segments_radial and columns
\* 0..=segments_angular in loop order
generate_rings(inner_radius, outer_radius, segments_radial, segments_angular) ==
  [vertices |-> [k \in 1..((segments_radial + 1) * (segments_angular + 1)) |->
                   RingVertex(inner_radius, outer_radius, segments_radial, segments_angular,
                              (k - 1) \div (segments_angular + 1),
                              (k - 1) % (segments_angular + 1))],
   indices |-> GridIndices(segments_radial, segments_angular)]

\* Obj::get_vertex_array: indexing past the vertices panics
get_vertex_array(obj) ==
  IF \E k \in 1..Len(obj.indices) : obj.indices[k] >= Len(obj.vertices)
  THEN [panic |-> TRUE, vertex_array |-> <<>>]
  ELSE [panic |-> FALSE,
        vertex_array |-> [k \in 1..Len(obj.indices) |-> obj.vertices[obj.indices[k] + 1]]]

\* the meshes main generates: planet sphere, moon, sun and rings
ProgramMeshes ==
  {[mesh |-> "sphere", radius |-> Unit, segments |-> 32],
   [mesh |-> "sphere", radius |-> Fx(1, 2), segments |-> 16],
   [mesh |-> "sphere", radius |-> 3 * Unit, segments |-> 64],
   [mesh |-> "rings", inner_radius |-> 4 * Unit, outer_radius |-> Fx(11, 2),
    segments_radial |-> 16, segments_angular |-> 32]}

ObjArgs ==
  [mesh : {"sphere"}, radius : {Fx(1, 2), Unit, 3 * Unit}, segments : 1..MaxSegments]
  \cup
  [mesh : {"rings"}, inner_radius : {4 * Unit}, outer_radius : {Fx(11, 2)},
   segments_radial : 1..MaxSegments, segments_angular : 1..MaxSegments]
  \cup ProgramMeshes

ObjInit ==
  /\ FbConstructed
  /\ fn = "none"
  /\ arg \in ObjArgs
  /\ res = <<>>
  /\ DrawIdle
  /\ MainIdle

ObjGenerateSphere ==
  /\ fn = "none"
  /\ arg.mesh = "sphere"
  /\ fn' = "generate_sphere"
  /\ res' = [obj |-> generate_sphere(arg.radius, arg.segments)]
  /\ UNCHANGED <<arg, fbvars, histvars, drawvars, mainvars>>

ObjGenerateRings ==
  /\ fn = "none"
  /\ arg.mesh = "rings"
  /\ fn' = "generate_rings"
  /\ res' = [obj |-> generate_rings(arg.inner_radius, arg.outer_radius,
                                    arg.segments_radial, arg.segments_angular)]
  /\ UNCHANGED <<arg, fbvars, histvars, drawvars, mainvars>>

ObjGetVertexArray ==
  /\ fn \in {"generate_sphere", "generate_rings"}
  /\ fn' = "get_vertex_array"
  /\ res' = [obj |-> res.obj, out |-> get_vertex_array(res.obj)]
  /\ UNCHANGED <<arg, fbvars, histvars, drawvars, mainvars>>

ObjNext == ObjGenerateSphere \/ ObjGenerateRings \/ ObjGetVertexArray

ObjSpec == ObjInit /\ [][ObjNext]_vars

\* the numbers of rows and columns of cells of the mesh asked for
ObjRows == IF arg.mesh = "sphere" THEN arg.segments ELSE arg.segments_radial

ObjColumns == IF arg.mesh = "sphere" THEN arg.segments ELSE arg.segments_angular

\* C27: for segments >= 1 generate_sphere produces (segments + 1)^2 vertices and
\* 6 * segments^2 indices, generate_rings with sr, sa >= 1 produces
\* (sr + 1) * (sa + 1) vertices and 6 * sr * sa indices, every index is below the
\* vertex count, and so get_vertex_array never indexes out of range on a
\* generated mesh and returns a list whose length is a multiple of 3.
C27_GeneratedMeshIndicesInRange ==
  fn # "none" =>
    /\ Len(res.obj.vertices) = (ObjRows + 1) * (ObjColumns + 1)
    /\ Len(res.obj.indices) = 6 * ObjRows * ObjColumns
    /\ \A k \in 1..Len(res.obj.indices) :
         res.obj.indices[k] >= 0 /\ res.obj.indices[k] < Len(res.obj.vertices)
    /\ fn = "get_vertex_array" =>
         /\ ~res.out.panic
         /\ Len(res.out.vertex_array) = Len(res.obj.indices)
         /\ Len(res.out.vertex_array) % 3 = 0
         /\ \A k \in 1..Len(res.obj.indices) :
              res.out.vertex_array[k] = res.obj.vertices[res.obj.indices[k] + 1]

\* the vertex array of a ring mesh of 2 by 3 cells: 36 vertices, the last one
\* the vertex of the far corner's row
C27_Witness ==
  /\ fn = "get_vertex_array"
  /\ arg.mesh = "rings"
  /\ arg.segments_radial = 2
  /\ arg.segments_angular = 3
  /\ Len(res.obj.vertices) = 12
  /\ Len(res.out.vertex_array) = 36
  /\ res.obj.indices[35] = 11

----------------------------------------------------------------------------
(* The temperature ramp of shader_sun *)

\* C28: in shader_sun, for a world position of length at least 0.0001 the
\* radial_gradient term is exactly 0, the distance being divided by itself, so
\* temperature never exceeds 0.6 and the two hottest segments of the ramp,
\* temperature > 0.8 and temperature > 0.6, are never selected.
C28_SunRadialGradientZero ==
  (fn = "shader_sun" /\ res.distance_from_center >= Eps) =>
    /\ res.divisor = res.distance_from_center
    /\ res.radial_gradient = 0
    /\ res.temperature <= Fx(6, 10)
    /\ ~(res.temperature > Fx(8, 10))
    /\ ~(res.temperature > Fx(6, 10))

\* shader_sun shaded a fragment off the origin: no radial term, and a
\* temperature in the coolest segment of the ramp
C28_Witness ==
  /\ fn = "shader_sun"
  /\ arg.fragment.world_position = <<Unit, 0, Unit>>
  /\ res.distance_from_center > Unit
  /\ res.radial_gradient = 0
  /\ res.temperature > 0
  /\ res.temperature <= Fx(4, 10)

----------------------------------------------------------------------------
(* Specification of the orbits over frames of any length *)

MaxOrbitFrames == 3   \* iterations of the frame loop followed

\* frame times: a 60 Hz frame, and frames that took 13 and 26 seconds
OrbitDeltaTimes == {Fx(1, 60), 13 * Unit, 26 * Unit}

\* while !window.window_should_close(): the window stays open, the frame time is read
OrbitLoopHead ==
  /\ At("head")
  /\ frames < MaxOrbitFrames
  /\ \E dt \in OrbitDeltaTimes :
       /\ delta_time' = dt
       /\ elapsed_time' = elapsed_time + dt
  /\ frames' = frames + 1
  /\ whist' = WarpHistNew(whist.completions)
  /\ Advance
  /\ UNCHANGED <<fbvars, histvars, purevars, drawvars, warp>>
  /\ UNCHANGED <<orbital_angle, pidx, ship_vertex_array, camera, ship, clears, framePoints,
                 pointsBeforeClear, presents, drawn, pointsAfterPresent>>

OrbitNext ==
  \/ OrbitLoopHead
  \/ MainClose
  \/ WarpInput
  \/ MainOrbits
  \/ WarpFrameRest

OrbitSpec == WarpInit /\ [][OrbitNext]_vars

\* C29: after the orbital update of a frame every planet's orbital_angle lies in
\* [0, 2 * PI), for any sequence of frames with non-negative delta_time, starting
\* from the initial angles.
C29_OrbitalAngleInRange ==
  \A i \in 1..Len(planets) : orbital_angle[i] >= 0 /\ orbital_angle[i] < 2 * Pi

============================================================================
